---- MODULE Spec2Model ----
(***************************************************************************)
(* KNXnet/IP tunnelling client: the connection state machine (a machina    *)
(* Fsm) together with the promise-returning request API built on it.       *)
(*                                                                         *)
(* One action of the model is one callback of the single-threaded event    *)
(* loop run to completion: an API call, an inbound datagram, a timer, a    *)
(* setImmediate callback.  What machina does synchronously inside such a   *)
(* callback (handle, transition, _onExit, _onEnter, replay of the deferred *)
(* queue, event listeners called by emit) is computed by the recursive     *)
(* operators Handle / Transition / OnEnter / ProcessQueue over a record    *)
(* holding the fields of the Fsm instance.                                 *)
(***************************************************************************)
EXTENDS Integers, Sequences, FiniteSets, TLC

\* ------------------------------------------------------------------ bounds
MaxReq == 2      \* requests submitted through read()/write() in one run
MaxQueue == 1    \* deferred inputs beyond which the gateway and disconnect() add no more
MaxFrames == 2   \* inbound L_Data frames the gateway sends in one run
MaxTicks == 1    \* ticks of the heartbeat interval in one run
MaxImmediates == 2 \* pending setImmediate callbacks beyond which only they run

\* --------------------------------------------------------- program constants
SeqMod == 256
MaxOutboundFailures == 1
MaxHeartbeatFailures == 3

NO_ERROR == "NO_ERROR"
E_CONNECTION_ID == "E_CONNECTION_ID"
E_NO_MORE_CONNECTIONS == "E_NO_MORE_CONNECTIONS"
ResponseCodes == {NO_ERROR, E_CONNECTION_ID, E_NO_MORE_CONNECTIONS}

NoChannel == 0
ChannelIds == {7}
NoDatagram == 0
NoEndpoint == ""
DefaultOptions ==
  [remoteEndpoint |-> FALSE, physServerAddr |-> "1.1.220", use_tunneling |-> TRUE]
NullAddr == 0

Requests == 1..MaxReq

VARIABLES
  state,                       \* machina: the current state
  inputQueue,                  \* machina: deferred inputs, oldest first
  channelID,                   \* this._channelID (NoChannel = null)
  inboundSeqNum,               \* this._inboundSeqNum
  outboundSeqNum,              \* this._outboundSeqNum
  connectionHeartbeatFailures, \* this._connectionHeartbeatFailures
  outboundDatagram,            \* this._outboundDatagram (uuid, NoDatagram = null)
  outboundFailures,            \* this._outboundFailures
  timer,                       \* this.timer: the input its callback will handle, or "none"
  ackTimer,                    \* this._ackTimer is armed
  connStateTimer,              \* this._connStateTimer is armed
  connStateRequestTimer,       \* this._connStateRequestTimer (setInterval) is armed
  lostTimers,                  \* armed timers whose handle was overwritten
  immediates,                  \* pending setImmediate callbacks, oldest first
  controlSocket,               \* this._controlSocket is open
  discoverSocket,              \* this._discoverSocket is open
  remoteControlEndpoint,       \* this._remoteControlEndpoint ("addr:port", NoEndpoint = null)
  options,                     \* this._options: remoteEndpoint is set, physServerAddr
  futures,                     \* per request: the promise, its listener and its timer
  uuids,                       \* number of request datagrams built so far
  wire,                        \* history: what was put on the wire
  log,                         \* history: what was emitted and counted
  codec                        \* KnxProtocol: the last call of the codec and its result

vars == <<state, inputQueue, channelID, inboundSeqNum, outboundSeqNum,
          connectionHeartbeatFailures, outboundDatagram, outboundFailures,
          timer, ackTimer, connStateTimer, connStateRequestTimer, lostTimers,
          immediates, controlSocket, discoverSocket, remoteControlEndpoint,
          options, futures, uuids, wire, log, codec>>

\* ------------------------------------------------------------------ inputs
\* One shape for every input handed to handle(): its name and the fields of
\* the datagram (or request) passed with it.
Input(type) ==
  [type |-> type, null |-> FALSE, uuid |-> NoDatagram, seqnum |-> 0,
   status |-> NO_ERROR, apci |-> "", destAddr |-> 0, data |-> 0,
   channelId |-> NoChannel, physicalAddr |-> "", tunnelEndpoint |-> ""]

ServiceTypeOf(opts) ==
  IF opts.use_tunneling THEN "TUNNELING_REQUEST" ELSE "ROUTING_INDICATION"

TunnelingRequest(uuid) ==
  [Input("outbound_TUNNELING_REQUEST") EXCEPT !.uuid = uuid]
TunnelingAck(seqnum, status) ==
  [Input("inbound_TUNNELING_ACK") EXCEPT !.seqnum = seqnum, !.status = status]
AckTimeout == [Input("inbound_TUNNELING_ACK") EXCEPT !.null = TRUE]
ConnStateResponse(status) ==
  [Input("inbound_CONNECTIONSTATE_RESPONSE") EXCEPT !.status = status]
ConnStateTimeout == [Input("inbound_CONNECTIONSTATE_RESPONSE") EXCEPT !.null = TRUE]
ConnectResponse(channelId, status) ==
  [Input("inbound_CONNECT_RESPONSE") EXCEPT !.channelId = channelId, !.status = status]
SearchResponse(physicalAddr, tunnelEndpoint) ==
  [Input("inbound_SEARCH_RESPONSE") EXCEPT !.physicalAddr = physicalAddr,
                                           !.tunnelEndpoint = tunnelEndpoint]
LData(msgcode, seqnum, apci, destAddr, data) ==
  [Input("inbound_TUNNELING_REQUEST_" \o msgcode) EXCEPT
     !.seqnum = seqnum, !.apci = apci, !.destAddr = destAddr, !.data = data]

IsLData(inp) ==
  inp.type \in {"inbound_TUNNELING_REQUEST_L_Data.ind", "inbound_TUNNELING_REQUEST_L_Data.con"}

\* ------------------------------------------------------- the instance record
\* The fields of the Fsm instance the callbacks read and write, as one record.
\* targetReplayState is machina's; reaction is the request a user listener
\* submits from inside its callback, if it does; replaying tells that the
\* input being handled comes out of the deferred queue.
Cur ==
  [state |-> state, inputQueue |-> inputQueue, channelID |-> channelID,
   inboundSeqNum |-> inboundSeqNum, outboundSeqNum |-> outboundSeqNum,
   connectionHeartbeatFailures |-> connectionHeartbeatFailures,
   outboundDatagram |-> outboundDatagram, outboundFailures |-> outboundFailures,
   timer |-> timer, ackTimer |-> ackTimer, connStateTimer |-> connStateTimer,
   connStateRequestTimer |-> connStateRequestTimer, lostTimers |-> lostTimers,
   immediates |-> immediates, controlSocket |-> controlSocket,
   discoverSocket |-> discoverSocket, remoteControlEndpoint |-> remoteControlEndpoint,
   options |-> options, futures |-> futures, uuids |-> uuids,
   wire |-> [wire EXCEPT !.out = <<>>, !.replayed = {}, !.events = <<>>,
                         !.handled = <<>>, !.connect = "", !.foreign = FALSE,
                         !.malformed = FALSE, !.thrown = "",
                             !.unexpected = FALSE],
   log |-> log,
   targetReplayState |-> state, reaction |-> "none", replaying |-> FALSE]

Commit(R) ==
  \E S \in {R} :
    /\ state' = S.state
    /\ inputQueue' = S.inputQueue
    /\ channelID' = S.channelID
    /\ inboundSeqNum' = S.inboundSeqNum
    /\ outboundSeqNum' = S.outboundSeqNum
    /\ connectionHeartbeatFailures' = S.connectionHeartbeatFailures
    /\ outboundDatagram' = S.outboundDatagram
    /\ outboundFailures' = S.outboundFailures
    /\ timer' = S.timer
    /\ ackTimer' = S.ackTimer
    /\ connStateTimer' = S.connStateTimer
    /\ connStateRequestTimer' = S.connStateRequestTimer
    /\ lostTimers' = S.lostTimers
    /\ immediates' = S.immediates
    /\ controlSocket' = S.controlSocket
    /\ discoverSocket' = S.discoverSocket
    /\ remoteControlEndpoint' = S.remoteControlEndpoint
    /\ options' = S.options
    /\ futures' = S.futures
    /\ uuids' = S.uuids
    /\ wire' = S.wire
    /\ log' = S.log
    /\ codec' = codec

\* -------------------------------------------------- timers, sockets, the wire
\* setTimeout/setInterval stored in a field: a timer that is still armed when
\* its handle is overwritten keeps running and can no longer be cleared.
Lose(S, kind, armed) ==
  IF armed THEN [S EXCEPT !.lostTimers[kind] = @ + 1] ELSE S

SetTimer(S, input) ==
  [Lose(S, S.timer, S.timer # "none") EXCEPT !.timer = input]
ClearTimer(S) == [S EXCEPT !.timer = "none"]

\* KnxDatagram.send: the writer's packet goes to socket.send; a missing socket
\* or an unknown remote address throws inside the try and nothing is sent.
Send(S, socketOpen, dg) ==
  IF socketOpen
    THEN [S EXCEPT !.wire.out = Append(@, dg)]
    ELSE S

Datagram(svc, uuid, seqnum) == [svc |-> svc, uuid |-> uuid, seqnum |-> seqnum]

SendControl(S, dg) ==
  Send(S, S.controlSocket /\ S.remoteControlEndpoint # NoEndpoint, dg)

\* sending the request datagram of outbound_TUNNELING_REQUEST
SendRequest(S) ==
  LET r == S.outboundDatagram.uuid
      s == S.outboundDatagram.seqnum
      T == SendControl(S, Datagram("TUNNELING_REQUEST", r, s))
  IN IF T.wire.out = S.wire.out THEN S
     ELSE [T EXCEPT !.wire.sent[r] = @ + 1,
                    !.wire.seqnums[r] = @ \cup {s},
                    !.wire.order = IF S.wire.sent[r] = 0 THEN Append(@, r) ELSE @,
                    !.wire.replayed = IF S.replaying THEN @ \cup {r} ELSE @]

\* ------------------------------------------------------ the request futures
NoFuture ==
  [kind |-> "none", addr |-> 0, state |-> "none", value |-> "", data |-> 0,
   listening |-> FALSE, timer |-> FALSE, calls |-> 0]

Settle(f, outcome, value, data) ==
  [f EXCEPT !.listening = FALSE, !.timer = FALSE, !.calls = @ + 1,
            !.state = IF @ = "pending" THEN outcome ELSE @,
            !.value = IF f.state = "pending" THEN value ELSE @,
            !.data = IF f.state = "pending" THEN data ELSE @]

\* an eventHandler that takes every ACK for a success
WriteEventHandlerIgnoresCode(f, response) ==
  IF response = "null" THEN Settle(f, "rejected", "No response", 0)
  ELSE Settle(f, "resolved", "true", 0)

\* write / writeRaw / readAsync: eventHandler(response)
WriteEventHandler(f, response) ==
  IF response = "null" THEN Settle(f, "rejected", "No response", 0)
  ELSE IF response # NO_ERROR THEN Settle(f, "rejected", response, 0)
  ELSE Settle(f, "resolved", "true", 0)

\* read: eventHandler(src, data); the timeout calls it with src = null.  The
\* APDU parser always yields a buffer for data, so "Invalid response" (data
\* === null) is not an outcome of an emitted frame.
ReadEventHandler(f, srcNull, data) ==
  IF srcNull THEN Settle(f, "rejected", "No response", 0)
  ELSE Settle(f, "resolved", "data", data)

\* emit("ReceivedAck_<uuid>", responseCode)
EmitReceivedAck(S, uuid, code) ==
  [S EXCEPT
     !.log.emitted[uuid] = IF @ = "none" THEN code ELSE "twice",
     !.log.acked = IF code = NO_ERROR THEN @ + 1 ELSE @,
     !.futures[uuid] = IF @.listening /\ @.kind = "write"
                         THEN WriteEventHandler(@, code) ELSE @]

\* an event name made of the destination alone
EmitGroupEventAnyApci(S, apci, destAddr, data) ==
  [S EXCEPT
     !.wire.events = Append(@, <<apci, destAddr>>),
     !.log.answer = [r \in Requests |->
        IF /\ S.futures[r].kind = "read" /\ S.futures[r].addr = destAddr
           /\ apci = "GroupValue_Response"
           /\ ~S.log.timedOut[r] /\ @[r] = 0
          THEN data ELSE @[r]],
     !.futures = [r \in Requests |->
        IF @[r].listening /\ @[r].kind = "read" /\ @[r].addr = destAddr
          THEN ReadEventHandler(@[r], FALSE, data) ELSE @[r]]]

\* emit("<apci>_<destAddr>", srcAddr, data): the listeners of read()
EmitGroupEvent(S, apci, destAddr, data) ==
  [S EXCEPT
     !.wire.events = Append(@, <<apci, destAddr>>),
     !.log.answer = [r \in Requests |->
        IF /\ S.futures[r].kind = "read" /\ S.futures[r].addr = destAddr
           /\ apci = "GroupValue_Response"
           /\ ~S.log.timedOut[r] /\ @[r] = 0
          THEN data ELSE @[r]],
     !.futures = [r \in Requests |->
        IF /\ @[r].listening /\ @[r].kind = "read"
           /\ apci = "GroupValue_Response" /\ @[r].addr = destAddr
          THEN ReadEventHandler(@[r], FALSE, data) ELSE @[r]]]

\* ------------------------------------------------------------------ machina
RECURSIVE Handle(_, _), Transition(_, _, _), HandleEach(_, _)

NoOutbound == [uuid |-> NoDatagram, seqnum |-> 0]

\* deferUntilTransition(stateName): "" replays on the next transition
DeferUntilTransition(S, inp, untilState) ==
  [S EXCEPT !.inputQueue = Append(@, [input |-> inp, untilState |-> untilState])]

ClearQueue(S) == [S EXCEPT !.inputQueue = <<>>]

SetImmediate(S, input) == [S EXCEPT !.immediates = Append(@, input)]

\* _prepareKnxDatagram(TUNNELING_REQUEST), then makeReadRequest or
\* makeWriteRequest / makeWriteRawRequest: these set the service type the
\* use_tunneling option asks for, but on a null group address or value the
\* two write builders return before they do; queueRequest is handed
\* "outbound_" + dg.getServiceType() in either case
MakeRequest(opts, kind, uuid, grpaddr) ==
  IF kind = "write" /\ grpaddr = NullAddr THEN TunnelingRequest(uuid)
  ELSE [Input("outbound_" \o ServiceTypeOf(opts)) EXCEPT !.uuid = uuid]

\* read()/write()/writeRaw(): build the datagram, register the listener and
\* the per-call timeout, hand the request to the Fsm (queueRequest)
Submit(S, kind, addr) ==
  LET r == S.uuids + 1
      T == [S EXCEPT
              !.uuids = r,
              !.futures[r] = [NoFuture EXCEPT !.kind = kind, !.addr = addr,
                                !.state = "pending", !.listening = TRUE,
                                !.timer = TRUE],
              !.log.onlineSince[r] = (S.state = "online")]
  IN Handle(T, MakeRequest(S.options, kind, r, addr))

\* a listener of a user event that answers it with a write()
UserListener(S) ==
  IF S.reaction # "none" /\ S.uuids < MaxReq
    THEN Submit([S EXCEPT !.reaction = "none"], S.reaction, 1)
    ELSE S

\* emit(name, ...) of a user event: "event" is the last one of a delivered
\* frame; log.session keeps the last of the events online and offline
EmitUser(S, event) ==
  UserListener([S EXCEPT !.wire.events = Append(@, event),
                         !.log.delivered = IF event = <<"event">> THEN @ + 1 ELSE @,
                         !.log.session = IF event \in {<<"online">>, <<"offline">>}
                                           THEN event[1] ELSE @])

\* ---------------------------------------------------------------- _onEnter
\* an entry to idle that keeps the channel of the session that has ended
IdleOnEnterKeepsChannel(S) ==
  SetTimer([EmitUser(S, <<"offline">>) EXCEPT !.controlSocket = FALSE], "startsearch")

IdleOnEnter(S) ==
  SetTimer([EmitUser(S, <<"offline">>) EXCEPT !.controlSocket = FALSE, !.channelID = NoChannel],
           "startsearch")

\* _startSearch: open the discovery socket and send SEARCH_REQUEST
StartSearch(S) ==
  Send([S EXCEPT !.discoverSocket = TRUE], TRUE, Datagram("SEARCH_REQUEST", NoDatagram, 0))

SearchingOnEnter(S) ==
  LET A == SetTimer(S, "timeout")
  IN IF ~S.options.remoteEndpoint THEN StartSearch(A) ELSE A

\* _startConnect: open the control socket and send CONNECT_REQUEST
StartConnect(S) ==
  SendControl([S EXCEPT !.controlSocket = TRUE], Datagram("CONNECT_REQUEST", NoDatagram, 0))

ConnectingOnEnter(S) == StartConnect(SetTimer(S, "timeout"))

\* a session that goes on counting inbound frames where the last one stopped
ConnectedOnEnterKeepsInbound(S) ==
  LET A == [S EXCEPT !.connectionHeartbeatFailures = 0,
                     !.outboundSeqNum = 0,
                     !.log.acked = 0, !.log.stamped = 0, !.log.delivered = 0]
      B == [Lose(A, "heartbeat", A.connStateRequestTimer) EXCEPT
               !.connStateRequestTimer = TRUE]
  IN Transition(EmitUser(B, <<"online">>), "online", Input(""))

ConnectedOnEnter(S) ==
  LET A == [S EXCEPT !.connectionHeartbeatFailures = 0,
                     !.inboundSeqNum = 0, !.outboundSeqNum = 0,
                     !.log.acked = 0, !.log.stamped = 0, !.log.delivered = 0]
      B == [Lose(A, "heartbeat", A.connStateRequestTimer) EXCEPT
               !.connStateRequestTimer = TRUE]
  IN Transition(EmitUser(B, <<"online">>), "online", Input(""))

WaitingOnEnter(S) == SetTimer(S, "timeout")

OnlineOnEnter(S) ==
  [S EXCEPT !.log.onlineSince = [r \in Requests |-> @[r] \/ r <= S.uuids]]

\* the TUNNELING_ACK echoing a frame's sequence counter
TunnelingAckOf(datagram) == Datagram("TUNNELING_ACK", NoDatagram, datagram.seqnum)

\* every frame is taken for one to acknowledge
InWindowAlways(S, datagram) == TRUE

\* the frame is the expected one or a repetition of the one before it
InWindow(S, datagram) ==
  \/ datagram.seqnum = S.inboundSeqNum
  \/ datagram.seqnum = (S.inboundSeqNum + 255) % SeqMod

\* a repetition is taken for a new frame
InSequenceOrRepeated(S, datagram) == InWindow(S, datagram)

InSequence(S, datagram) == datagram.seqnum = S.inboundSeqNum

\* an inbound counter that does not wrap
NextInboundSeqNumNoWrap(n) == n + 1

NextInboundSeqNum(n) == (n + 1) % SeqMod

\* the _onEnter up to its transition: the ACK, the counter, the three events
InboundLDataDeliver(S, datagram) ==
  LET A == IF InWindow(S, datagram) THEN SendControl(S, TunnelingAckOf(datagram)) ELSE S
  IN IF InWindow(S, datagram) /\ InSequence(S, datagram)
       THEN EmitUser(
              EmitUser(
                EmitGroupEvent(
                  [A EXCEPT !.inboundSeqNum = NextInboundSeqNum(@)],
                  datagram.apci, datagram.destAddr, datagram.data),
                <<"event", datagram.destAddr>>),
              <<"event">>)
       ELSE A

\* wire.handled keeps, for each frame this _onEnter ran for in the current
\* callback, what it was given (S before, datagram) and what it did (B after)
RecordHandled(S, B, datagram) ==
  [B EXCEPT !.wire.handled = Append(@,
     [seqnum |-> datagram.seqnum, expected |-> S.inboundSeqNum,
      nth |-> S.log.delivered, replayed |-> S.replaying,
      apci |-> datagram.apci, destAddr |-> datagram.destAddr,
      acks |-> SubSeq(B.wire.out, Len(S.wire.out) + 1, Len(B.wire.out)),
      events |-> SubSeq(B.wire.events, Len(S.wire.events) + 1, Len(B.wire.events)),
      after |-> B.inboundSeqNum, next |-> ""])]

\* the state the _onEnter's transition has led to
RecordNext(D, i) == [D EXCEPT !.wire.handled[i].next = D.state]

InboundLDataOnEnter(S, datagram) ==
  RecordNext(Transition(RecordHandled(S, InboundLDataDeliver(S, datagram), datagram),
                        "waiting", Input("")),
             Len(S.wire.handled) + 1)

OutboundConnStateOnEnter(S) == Handle(S, Input("send_CONNECTIONSTATE_REQUEST"))

OutboundTunnelingOnEnter(S, datagram) ==
  Handle([S EXCEPT !.outboundDatagram = [uuid |-> datagram.uuid,
                                          seqnum |-> S.outboundSeqNum],
                   !.outboundFailures = 0,
                   !.log.stamped = @ + 1],
         Input("send_TUNNELING_REQUEST"))

\* the requests among the deferred inputs
QueuedRequests(q) ==
  {q[i].input.uuid : i \in {j \in DOMAIN q : q[j].input.type = "outbound_TUNNELING_REQUEST"}}

\* an entry to disconnecting that keeps the deferred inputs
ClearQueueKeeps(S) == [S EXCEPT !.log.purged = @ \cup QueuedRequests(S.inputQueue)]

\* clearQueue() on the entry to disconnecting; log.purged keeps the requests
\* that were deferred at that moment
ClearQueuePurges(S) ==
  ClearQueue([S EXCEPT !.log.purged = @ \cup QueuedRequests(S.inputQueue)])

\* an entry to disconnecting that leaves the heartbeat interval running
DisconnectingOnEnterKeepsHeartbeat(S) ==
  SendControl(SetTimer(ClearQueuePurges(S), "timeout"),
              Datagram("DISCONNECT_REQUEST", NoDatagram, 0))

DisconnectingOnEnter(S) ==
  LET A == ClearQueuePurges(S)
      B == [A EXCEPT !.connStateRequestTimer = FALSE]
  IN SendControl(SetTimer(B, "timeout"), Datagram("DISCONNECT_REQUEST", NoDatagram, 0))

OnEnter(S, arg) ==
  CASE S.state = "idle" -> IdleOnEnter(S)
    [] S.state = "searching" -> SearchingOnEnter(S)
    [] S.state = "connecting" -> ConnectingOnEnter(S)
    [] S.state = "connected" -> ConnectedOnEnter(S)
    [] S.state = "waiting" -> WaitingOnEnter(S)
    [] S.state = "online" -> OnlineOnEnter(S)
    [] S.state = "inbound_TUNNELING_REQUEST_L_Data" -> InboundLDataOnEnter(S, arg)
    [] S.state = "outbound_CONNECTIONSTATE_REQUEST" -> OutboundConnStateOnEnter(S)
    [] S.state = "outbound_TUNNELING_REQUEST" -> OutboundTunnelingOnEnter(S, arg)
    [] S.state = "disconnecting" -> DisconnectingOnEnter(S)
    [] OTHER -> S

\* ----------------------------------------------------------------- _onExit
OutboundTunnelingOnExit(S) ==
  [S EXCEPT !.ackTimer = FALSE, !.outboundDatagram = NoOutbound,
            !.outboundFailures = 0]

OnExit(S) ==
  CASE S.state \in {"idle", "connecting", "waiting", "disconnecting"} -> ClearTimer(S)
    [] S.state = "searching" -> [ClearTimer(S) EXCEPT !.discoverSocket = FALSE]
    [] S.state = "outbound_CONNECTIONSTATE_REQUEST" -> [S EXCEPT !.connStateTimer = FALSE]
    [] S.state = "outbound_TUNNELING_REQUEST" -> OutboundTunnelingOnExit(S)
    [] OTHER -> S

\* machina transition(newState, args): _onExit, _onEnter, then the replay of
\* the deferred inputs unless _onEnter itself moved on.  Transition and Handle
\* take the Fsm they are given as a value (S, and C after _onEnter): the
\* records are worked out once, as the calls of the program are.
ProcessQueue(S) ==
  LET due(item) == item.untilState \in {"", S.state}
      waits(item) == ~due(item)
      toProcess == SelectSeq(S.inputQueue, due)
      rest == SelectSeq(S.inputQueue, waits)
      R == HandleEach([S EXCEPT !.inputQueue = rest, !.replaying = TRUE], toProcess)
  IN [R EXCEPT !.replaying = S.replaying]

HandleEach(S, items) ==
  IF items = <<>> THEN S
  ELSE HandleEach(Handle(S, Head(items).input), Tail(items))

Transition(R, newState, arg) ==
  CHOOSE T \in
    {(IF newState = S.state THEN S
      ELSE LET A == OnExit(S)
               B == [A EXCEPT !.state = newState, !.targetReplayState = newState]
           IN CHOOSE D \in {(IF C.targetReplayState = newState THEN ProcessQueue(C) ELSE C) :
                              C \in {OnEnter(B, arg)}} : TRUE) :
       S \in {R}} : TRUE

\* ------------------------------------------------------- the states' handlers
NoArg == Input("")

UninitializedHandle(S, inp) ==
  Transition(DeferUntilTransition(S, inp, ""), "idle", NoArg)

IdleHandle(S, inp) ==
  IF inp.type = "startsearch" THEN Transition(S, "searching", NoArg) ELSE S

\* a filter that lets every gateway pass
SearchResponseAcceptedAlways(S, datagram) == TRUE

SearchResponseAccepted(S, datagram) ==
  S.options.physServerAddr = "" \/ datagram.physicalAddr = S.options.physServerAddr

SearchingHandle(S, inp) ==
  CASE inp.type = "inbound_SEARCH_RESPONSE" ->
         IF SearchResponseAccepted(S, inp)
           THEN Transition([S EXCEPT !.remoteControlEndpoint = inp.tunnelEndpoint],
                           "connecting", NoArg)
           ELSE S
    [] inp.type = "timeout" -> Transition(S, "idle", NoArg)
    [] OTHER -> S

\* a rejected connection that is taken for an accepted one
ConnectNeverRejected(datagram) == FALSE

ConnectRejected(datagram) == datagram.status = E_NO_MORE_CONNECTIONS

\* wire.connect keeps the status of the CONNECT_RESPONSE the current callback
\* handled.  this.socket is no field of the Fsm: its close() throws inside the
\* try, and the control socket is closed by idle._onEnter.
ConnectResponseHandle(S, datagram) ==
  LET A == [S EXCEPT !.wire.connect = datagram.status]
  IN IF ConnectRejected(datagram)
       THEN Transition(A, "idle", NoArg)
       ELSE Transition([A EXCEPT !.channelID = datagram.channelId], "connected", NoArg)

ConnectingHandle(S, inp) ==
  CASE inp.type = "disconnect" -> Transition(S, "disconnecting", NoArg)
    [] inp.type = "inbound_CONNECT_RESPONSE" -> ConnectResponseHandle(S, inp)
    [] inp.type = "timeout" -> Transition(S, "disconnecting", NoArg)
    [] OTHER -> S

ConnectedHandle(S, inp) == DeferUntilTransition(S, inp, "online")

\* a catch-all that starts a request during the waiting time
WaitingStarSendsRequest(S, inp) ==
  IF inp.type = "outbound_TUNNELING_REQUEST"
    THEN Transition(S, "outbound_TUNNELING_REQUEST", inp)
    ELSE DeferUntilTransition(S, inp, "online")

WaitingStar(S, inp) == DeferUntilTransition(S, inp, "online")

WaitingHandle(S, inp) ==
  CASE inp.type = "inbound_TUNNELING_REQUEST_L_Data.ind" ->
         Transition(S, "inbound_TUNNELING_REQUEST_L_Data", inp)
    [] inp.type = "disconnect" -> Transition(S, "disconnecting", NoArg)
    [] inp.type = "timeout" ->
         Transition([S EXCEPT !.log.pace = "idle"], "online", NoArg)
    [] OTHER -> WaitingStar(S, inp)

OnlineHandle(S, inp) ==
  CASE inp.type = "disconnect" -> Transition(S, "disconnecting", NoArg)
    [] inp.type = "inbound_DISCONNECT_REQUEST" ->
         Transition([S EXCEPT !.connStateRequestTimer = FALSE], "idle", NoArg)
    [] IsLData(inp) -> Transition(S, "inbound_TUNNELING_REQUEST_L_Data", inp)
    [] inp.type = "outbound_CONNECTIONSTATE_REQUEST" ->
         Transition(S, "outbound_CONNECTIONSTATE_REQUEST", NoArg)
    [] inp.type = "outbound_TUNNELING_REQUEST" ->
         Transition(S, "outbound_TUNNELING_REQUEST", inp)
    [] OTHER -> S

InboundLDataHandle(S, inp) == DeferUntilTransition(S, inp, "")

\* outbound_CONNECTIONSTATE_REQUEST
SendConnStateRequest(S) ==
  LET A == [Lose(S, "connState", S.connStateTimer) EXCEPT !.connStateTimer = TRUE]
  IN SendControl(A, Datagram("CONNECTIONSTATE_REQUEST", NoDatagram, 0))

\* a heartbeat that gives up one failure early
HeartbeatLostEarly(S) == S.connectionHeartbeatFailures >= MaxHeartbeatFailures

HeartbeatLost(S) == S.connectionHeartbeatFailures > MaxHeartbeatFailures

\* the transition to disconnecting is not followed by a return: the resend is
\* scheduled after it as well
ConnStateResponseHandle(S, datagram) ==
  LET A == [S EXCEPT !.connStateTimer = FALSE]
      ok == ~datagram.null /\ datagram.status = NO_ERROR
      B == [A EXCEPT !.connectionHeartbeatFailures = IF ok THEN 0 ELSE @ + 1]
      C == IF HeartbeatLost(B)
             THEN Transition(B, "disconnecting", NoArg) ELSE B
  IN IF ok THEN Handle(B, Input("ok"))
     ELSE SetImmediate(C, Input("send_CONNECTIONSTATE_REQUEST"))

OutboundConnStateHandle(S, inp) ==
  CASE inp.type = "send_CONNECTIONSTATE_REQUEST" -> SendConnStateRequest(S)
    [] inp.type = "inbound_CONNECTIONSTATE_RESPONSE" -> ConnStateResponseHandle(S, inp)
    [] inp.type = "ok" -> Transition(S, "waiting", NoArg)
    [] OTHER -> DeferUntilTransition(S, inp, "")

\* outbound_TUNNELING_REQUEST
SendTunnelingRequest(S) ==
  SendRequest([Lose(S, "ack", S.ackTimer) EXCEPT !.ackTimer = TRUE])

AckOkTarget == "waiting"

\* a failure policy that never gives up
AckFailedRetriesAgain(S, responseCode) ==
  SetImmediate(S, Input("send_TUNNELING_REQUEST"))

\* the tail of inbound_TUNNELING_ACK after a failure was counted
AckFailed(S, responseCode) ==
  IF S.outboundFailures > MaxOutboundFailures
    THEN Transition(EmitReceivedAck(S, S.outboundDatagram.uuid, responseCode),
                    "disconnecting", NoArg)
    ELSE SetImmediate(S, Input("send_TUNNELING_REQUEST"))

\* a sequence counter that is not reduced modulo 256
AckPositiveNoWrap(S) ==
  LET A == [S EXCEPT !.outboundSeqNum = @ + 1, !.log.pace = "due"]
  IN Handle(EmitReceivedAck(A, S.outboundDatagram.uuid, NO_ERROR), Input("ok"))

AckPositive(S) ==
  LET A == [S EXCEPT !.outboundSeqNum = (@ + 1) % SeqMod,
                     !.log.pace = "due"]
  IN Handle(EmitReceivedAck(A, S.outboundDatagram.uuid, NO_ERROR), Input("ok"))

\* an ACK handler that takes every ACK for the expected one
TunnelingAckAnySeqNum(S, datagram) ==
  IF datagram.null
    THEN AckFailed([S EXCEPT !.outboundFailures = @ + 1], "null")
  ELSE LET A == [S EXCEPT !.ackTimer = FALSE,
                          !.wire.unexpected = datagram.seqnum # S.outboundSeqNum]
       IN IF datagram.status = NO_ERROR
            THEN AckPositive(A)
            ELSE AckFailed([A EXCEPT !.outboundFailures = @ + 1], datagram.status)

\* inbound_TUNNELING_ACK: wire.unexpected tells that the current callback has
\* logged "Received unexpected ack"
TunnelingAckHandle(S, datagram) ==
  IF datagram.null
    THEN AckFailed([S EXCEPT !.outboundFailures = @ + 1], "null")
  ELSE IF datagram.seqnum = S.outboundSeqNum
    THEN LET A == [S EXCEPT !.ackTimer = FALSE]
         IN IF datagram.status = NO_ERROR
              THEN AckPositive(A)
              ELSE AckFailed([A EXCEPT !.outboundFailures = @ + 1], datagram.status)
  ELSE [S EXCEPT !.wire.unexpected = TRUE]

\* a catch-all that starts the next request at once instead of deferring it
OutboundTunnelingStarSendsNext(S, inp) ==
  IF inp.type = "outbound_TUNNELING_REQUEST"
    THEN OutboundTunnelingOnEnter(S, inp)
    ELSE DeferUntilTransition(S, inp, "")

OutboundTunnelingStar(S, inp) == DeferUntilTransition(S, inp, "")

OutboundTunnelingHandle(S, inp) ==
  CASE inp.type = "send_TUNNELING_REQUEST" -> SendTunnelingRequest(S)
    [] inp.type = "inbound_TUNNELING_ACK" -> TunnelingAckHandle(S, inp)
    [] inp.type = "ok" -> Transition(S, AckOkTarget, NoArg)
    [] OTHER -> OutboundTunnelingStar(S, inp)

\* a disconnecting state that waits for the DISCONNECT_RESPONSE only
DisconnectingAwaitsResponse(S, inp) ==
  IF inp.type = "inbound_DISCONNECT_RESPONSE" THEN Transition(S, "idle", NoArg) ELSE S

DisconnectingHandle(S, inp) ==
  IF inp.type \in {"inbound_DISCONNECT_RESPONSE", "timeout"}
    THEN Transition(S, "idle", NoArg) ELSE S

\* machina handle(inputType, args): the handler of the current state, its
\* catch-all "*", or nothing (nohandler)
Handle(R, inp) ==
  CHOOSE T \in {(
  CASE S.state = "uninitialized" -> UninitializedHandle(S, inp)
    [] S.state = "idle" -> IdleHandle(S, inp)
    [] S.state = "searching" -> SearchingHandle(S, inp)
    [] S.state = "connecting" -> ConnectingHandle(S, inp)
    [] S.state = "connected" -> ConnectedHandle(S, inp)
    [] S.state = "waiting" -> WaitingHandle(S, inp)
    [] S.state = "online" -> OnlineHandle(S, inp)
    [] S.state = "inbound_TUNNELING_REQUEST_L_Data" -> InboundLDataHandle(S, inp)
    [] S.state = "outbound_CONNECTIONSTATE_REQUEST" -> OutboundConnStateHandle(S, inp)
    [] S.state = "outbound_TUNNELING_REQUEST" -> OutboundTunnelingHandle(S, inp)
    [] S.state = "disconnecting" -> DisconnectingHandle(S, inp))
    : S \in {R}} : TRUE

\* ------------------------------------------------------- KnxProtocol (codec)
\* the byte stream of the writer and the reader
UInt8(v) == <<v % 256>>
UInt16BE(v) == <<(v \div 256) % 256, v % 256>>

\* what a write produces: the bytes appended to the packet, or the error thrown
Written(bytes) == [error |-> "", bytes |-> bytes]
Thrown(error) == [error |-> error, bytes |-> <<>>]
\* one write after another: a throw ends the chain
Then(first, second) ==
  IF first.error # "" THEN first
  ELSE IF second.error # "" THEN second
  ELSE Written(first.bytes \o second.bytes)

\* KnxConstants.APCICODES, by index
APCICODES ==
  <<"GroupValue_Read", "GroupValue_Response", "GroupValue_Write",
    "PhysicalAddress_Write", "PhysicalAddress_Read", "PhysicalAddress_Response",
    "ADC_Read", "ADC_Response", "Memory_Read", "Memory_Response", "Memory_Write",
    "UserMemory", "DeviceDescriptor_Read", "DeviceDescriptor_Response",
    "Restart", "OTHER">>

\* An APDU value: data is a number (isBuffer = FALSE, data = <<n>>) or a
\* Buffer / array of bytes; bitlength = 0 stands for no bitlength.
NoApdu == [tpci |-> 0, apci |-> "", isBuffer |-> FALSE, data |-> <<>>, bitlength |-> 0]

MaxPayload == 14
MaxApduLength == 17

\* KnxProtocol.lengths.APDU; Throws stands for the error it throws on a
\* payload that is neither a 6-bit number nor 1 to 14 bytes
Throws == -1

LengthsAPDU(value) ==
  IF value.bitlength # 0
    THEN 3 + (IF value.bitlength > 6 THEN (value.bitlength + 7) \div 8 ELSE 0)
  ELSE IF value.isBuffer /\ Len(value.data) # 0
    THEN IF Len(value.data) > MaxPayload THEN Throws
         ELSE IF Len(value.data) = 1 /\ value.data[1] \in 0..63 THEN 3
         ELSE 3 + Len(value.data)
  ELSE IF ~value.isBuffer /\ value.data[1] \in 0..63 THEN 3
  ELSE Throws

\* KnxProtocol APDU.write.  An APCI that is not in APCICODES (indexOf is -1):
\* the error is logged and the write returns, nothing is written and nothing
\* is thrown.  Buffer.from(<number>) throws.
APDUWrite(value) ==
  LET totalLength == LengthsAPDU(value)
      indexOf == IF \E i \in DOMAIN APCICODES : APCICODES[i] = value.apci
                   THEN (CHOOSE i \in DOMAIN APCICODES : APCICODES[i] = value.apci) - 1
                   ELSE -1
      word == value.tpci * 1024 + indexOf * 64
  IN IF totalLength = Throws THEN Thrown("APDU payload must be a 6-bit int or 1 to 14 bytes")
     ELSE IF indexOf = -1 THEN Written(<<>>)
     ELSE IF totalLength < 3 THEN Thrown("APDU is too small")
     ELSE IF totalLength > MaxApduLength THEN Thrown("APDU is too big")
     ELSE IF totalLength = 3
       THEN Written(UInt8(totalLength - 2) \o UInt16BE(word + value.data[1]))
     ELSE IF ~value.isBuffer THEN Thrown("TypeError")
     ELSE Written(UInt8(totalLength - 2) \o UInt16BE(word) \o value.data)

\* the payload is always taken from behind the word
ApduDataBehindWord(apduLength, apduRaw, data) == SubSeq(apduRaw, 3, Len(apduRaw))

\* hdr.data: the bytes behind the word, or the embedded six bits as one byte
ApduData(apduLength, apduRaw, data) ==
  IF apduLength > 1 THEN SubSeq(apduRaw, 3, Len(apduRaw)) ELSE <<data>>

\* KnxProtocol APDU.read: the length byte, apduLength + 1 raw bytes, and the
\* bit fields tpci (6), apci (4), data (6) of the first two of them
APDURead(bytes) ==
  LET apduLength == bytes[1]
      apduRaw == SubSeq(bytes, 2, 2 + apduLength)
      word == apduRaw[1] * 256 + apduRaw[2]
  IN [tpci |-> word \div 1024,
      apci |-> APCICODES[((word \div 64) % 16) + 1],
      data |-> ApduData(apduLength, apduRaw, word % 64)]

\* KnxConstants.SERVICE_TYPE
SERVICE_TYPE ==
  [SEARCH_REQUEST |-> 513, SEARCH_RESPONSE |-> 514, CONNECT_REQUEST |-> 517,
   CONNECT_RESPONSE |-> 518, CONNECTIONSTATE_REQUEST |-> 519,
   CONNECTIONSTATE_RESPONSE |-> 520, DISCONNECT_REQUEST |-> 521,
   DISCONNECT_RESPONSE |-> 522, TUNNELING_REQUEST |-> 1056, TUNNELING_ACK |-> 1057,
   ROUTING_INDICATION |-> 1328]

\* A datagram: its service type, the sub-structures it has (hpai, tunn, cri,
\* connstate, tunnstate, cemi, devinfo) and the fields of these that vary.
\* The defaults are those of the builders: hpai and tunn are UDP 0.0.0.0:0,
\* cri is a TUNNEL_CONNECTION on the LINK_LAYER, the cemi is an L_Data.req
\* (0x11) from 15.15.15 to 0/0/0 with the APDU GroupValue_Write, tpci 0, data 0.
NoFrame ==
  [serviceType |-> "", has |-> {}, protocolType |-> 1, connectionType |-> 4,
   descriptionType |-> 1, channelId |-> 0, seqnum |-> 0, status |-> 0,
   msgcode |-> 17, destAddr |-> 0,
   apdu |-> [NoApdu EXCEPT !.apci = "GroupValue_Write", !.data = <<0>>]]

\* KnxDatagram.buildDatagram: every datagram gets an hpai; the cemi of a
\* ROUTING_INDICATION is an L_Data.ind (0x29)
BuildDatagram(svcType, channel) ==
  [NoFrame EXCEPT
     !.serviceType = svcType,
     !.channelId = channel,
     !.msgcode = IF svcType = "ROUTING_INDICATION" THEN 41 ELSE 17,
     !.has = {"hpai"} \cup
       (CASE svcType = "CONNECT_REQUEST" -> {"tunn", "cri", "connstate"}
          [] svcType \in {"CONNECTIONSTATE_REQUEST", "DISCONNECT_REQUEST"} -> {"connstate"}
          [] svcType = "ROUTING_INDICATION" -> {"cemi"}
          [] svcType = "TUNNELING_REQUEST" -> {"tunn", "tunnstate", "cemi"}
          [] svcType = "TUNNELING_ACK" -> {"tunnstate"}
          [] OTHER -> {})]

\* the service types KNXNetHeader.write and lengths.KNXNetHeader treat alike:
\* connstate, hpai, cri
ConnStateTypes ==
  {"SEARCH_RESPONSE", "CONNECT_RESPONSE", "CONNECTIONSTATE_REQUEST",
   "CONNECTIONSTATE_RESPONSE", "DISCONNECT_REQUEST"}

\* KnxProtocol.lengths.KNXNetHeader, with lengths.HPAI, CRI, ConnState,
\* TunnState (0 for a sub-structure the datagram does not have) and
\* lengths.CEMI
LengthsKNXNetHeader(value) ==
  LET StructLength(name) ==
        IF name \notin value.has THEN 0
        ELSE CASE name \in {"hpai", "tunn"} -> 8
               [] name = "cri" -> 4
               [] name = "connstate" -> 2
               [] name = "tunnstate" -> 4
      LengthsCEMI ==
        IF "cemi" \notin value.has THEN 0
        ELSE IF LengthsAPDU(value.apdu) = Throws THEN Throws
        ELSE 8 + LengthsAPDU(value.apdu)
  IN CASE value.serviceType \in {"SEARCH_REQUEST", "CONNECT_REQUEST"} ->
            6 + StructLength("hpai") + StructLength("tunn") + StructLength("cri")
       [] value.serviceType \in ConnStateTypes ->
            6 + StructLength("connstate") + StructLength("hpai") + StructLength("cri")
       [] value.serviceType \in {"TUNNELING_ACK", "TUNNELING_REQUEST"} ->
            IF LengthsCEMI = Throws THEN Throws
            ELSE 6 + StructLength("tunnstate") + LengthsCEMI
       [] value.serviceType = "ROUTING_INDICATION" ->
            IF LengthsCEMI = Throws THEN Throws ELSE 6 + LengthsCEMI
       [] OTHER -> 0

\* KNXNetHeader.write: totalLength is computed first, then the header and the
\* sub-structures of the service type are written, each if the datagram has
\* it (HPAI.write, CRI.write, ConnState.write, TunnState.write, CEMI.write:
\* message code, additional info length, the two control bytes, source and
\* destination address, and the APDU of an L_Data.req / .ind / .con)
KNXNetHeaderWrite(value) ==
  LET totalLength == LengthsKNXNetHeader(value)
      header == Written(UInt8(6) \o UInt8(16)
                          \o UInt16BE(SERVICE_TYPE[value.serviceType])
                          \o UInt16BE(totalLength))
      StructWrite(name) ==
        IF name \notin value.has THEN Written(<<>>)
        ELSE CASE name \in {"hpai", "tunn"} ->
                    Written(UInt8(8) \o UInt8(value.protocolType) \o <<0, 0, 0, 0>>
                              \o UInt16BE(0))
               [] name = "cri" ->
                    Written(UInt8(4) \o UInt8(value.connectionType) \o UInt8(2) \o UInt8(0))
               [] name = "connstate" ->
                    Written(UInt8(value.channelId) \o UInt8(value.status))
               [] name = "tunnstate" ->
                    Written(UInt8(4) \o UInt8(value.channelId) \o UInt8(value.seqnum)
                              \o UInt8(value.status))
      CEMIWrite ==
        IF "cemi" \notin value.has THEN Written(<<>>)
        ELSE Then(Written(UInt8(value.msgcode) \o UInt8(0) \o UInt8(188) \o UInt8(224)
                            \o UInt16BE(65535) \o UInt16BE(value.destAddr)),
                  IF value.msgcode \in {17, 41, 46}
                    THEN APDUWrite(value.apdu) ELSE Written(<<>>))
  IN IF totalLength = Throws
       THEN Thrown("APDU payload must be a 6-bit int or 1 to 14 bytes")
     ELSE CASE value.serviceType \in {"SEARCH_REQUEST", "CONNECT_REQUEST"} ->
                 Then(Then(header, StructWrite("hpai")),
                      Then(StructWrite("tunn"), StructWrite("cri")))
            [] value.serviceType \in ConnStateTypes ->
                 Then(Then(header, StructWrite("connstate")),
                      Then(StructWrite("hpai"), StructWrite("cri")))
            [] value.serviceType \in {"ROUTING_INDICATION", "TUNNELING_ACK",
                                      "TUNNELING_REQUEST"} ->
                 Then(Then(header, StructWrite("tunnstate")), CEMIWrite)
            [] OTHER -> Thrown("write KNXNetHeader: unhandled serviceType")

\* KNXNetHeader.read, up to the dispatch on the service type: the six bytes
\* of the header and the check that follows them.  The check for an
\* incomplete packet compares with this.totalLength, a property of the reader
\* (createReader(msg): the buffer and the position), not with hdr.totalLength.
KNXNetHeaderRead(msg) ==
  LET reader == [buffer |-> msg, offset |-> 0]
      hdr == [headerLength |-> msg[1], protocolVersion |-> msg[2],
              serviceType |-> msg[3] * 256 + msg[4],
              totalLength |-> msg[5] * 256 + msg[6]]
      incomplete == /\ "totalLength" \in DOMAIN reader
                    /\ Len(reader.buffer) + hdr.headerLength < reader.totalLength
  IN [error |-> IF incomplete THEN "Incomplete KNXNet packet" ELSE "",
      hdr |-> hdr]

\* the last call of the codec: its argument (apdu, datagram or msg) and what
\* it returned (out of a write, apduIn of APDU.read, header of KNXNetHeader.read)
NoCodec ==
  [op |-> "", apdu |-> NoApdu, datagram |-> NoFrame, msg |-> <<>>,
   out |-> Written(<<>>),
   apduIn |-> [tpci |-> 0, apci |-> "", data |-> <<>>],
   header |-> [error |-> "", hdr |-> [headerLength |-> 0, protocolVersion |-> 0,
                                      serviceType |-> 0, totalLength |-> 0]]]

\* -------------------------------------------------------------------- Init
\* the fields set by initialize(), the options apart
InitFields ==
  /\ state = "uninitialized"
  /\ inputQueue = <<>>
  /\ channelID = NoChannel
  /\ inboundSeqNum = 0
  /\ outboundSeqNum = 0
  /\ connectionHeartbeatFailures = 0
  /\ outboundDatagram = NoOutbound
  /\ outboundFailures = 0
  /\ timer = "none"
  /\ ackTimer = FALSE
  /\ connStateTimer = FALSE
  /\ connStateRequestTimer = FALSE
  /\ lostTimers = [ack |-> 0, connState |-> 0, heartbeat |-> 0,
                   startsearch |-> 0, timeout |-> 0]
  /\ immediates = <<>>
  /\ controlSocket = FALSE
  /\ discoverSocket = FALSE
  /\ remoteControlEndpoint = NoEndpoint
  /\ futures = [r \in Requests |-> NoFuture]
  /\ uuids = 0
  /\ wire = [sent |-> [r \in Requests |-> 0], order |-> <<>>,
             seqnums |-> [r \in Requests |-> {}], out |-> <<>>, replayed |-> {},
             events |-> <<>>, handled |-> <<>>, connect |-> "", foreign |-> FALSE,
             malformed |-> FALSE, thrown |-> "", unexpected |-> FALSE]
  /\ log = [emitted |-> [r \in Requests |-> "none"],
            pace |-> "idle",
            onlineSince |-> [r \in Requests |-> FALSE],
            answer |-> [r \in Requests |-> 0],
            timedOut |-> [r \in Requests |-> FALSE],
            acked |-> 0, stamped |-> 0, delivered |-> 0, frames |-> 0, ticks |-> 0,
            purged |-> {}, session |-> ""]
  /\ codec = NoCodec

Init == InitFields /\ options = DefaultOptions


\* ----------------------------------------------------------------- actions
\* Callbacks of the event loop.  A pending setImmediate callback runs in the
\* check phase of the loop iteration that scheduled it: I/O callbacks and
\* calls of the API can come before it, timers cannot.
NoImmediate == immediates = <<>>

\* Unsolicited inputs (disconnect(), heartbeat ticks, inbound frames, the
\* gateway's DISCONNECT_REQUEST) come while the deferred queue has room.
Room == Len(inputQueue) < MaxQueue /\ Len(immediates) < MaxImmediates

\* what the application's listeners do when a user event is emitted
Reactions == {"none", "write"}

\* connect(), called while the client is disconnected
Connect == state \in {"uninitialized", "idle"} /\ Commit(Handle(Cur, Input("startsearch")))

\* disconnect()
Disconnect == Room /\ Commit(Handle(Cur, Input("disconnect")))

\* write(), writeRaw(), readAsync(): a request whose future awaits ReceivedAck_<uuid>
Write == uuids < MaxReq /\ Commit(Submit(Cur, "write", 1))

\* read(groupAddress)
Read == uuids < MaxReq /\ Commit(Submit(Cur, "read", 1))

\* a timeout that also takes the request out of the deferred queue
CallTimeoutCancels(S, r) ==
  LET keep(item) == ~(item.input.type = "outbound_TUNNELING_REQUEST" /\ item.input.uuid = r)
  IN [S EXCEPT
        !.futures[r] = IF @.kind = "read" THEN ReadEventHandler(@, TRUE, 0)
                       ELSE WriteEventHandler(@, "null"),
        !.log.timedOut[r] = TRUE,
        !.inputQueue = SelectSeq(@, keep)]

\* the callback of the per-call setTimeout: eventHandler(null)
CallTimeoutHandler(S, r) ==
  [S EXCEPT
     !.futures[r] = IF @.kind = "read" THEN ReadEventHandler(@, TRUE, 0)
                    ELSE WriteEventHandler(@, "null"),
     !.log.timedOut[r] = TRUE]

\* the per-call timeout of a pending request fires
CallTimeout ==
  \E r \in Requests :
    /\ futures[r].timer
    /\ NoImmediate
    /\ Commit(CallTimeoutHandler(Cur, r))

\* this.timer fires (idle 2 s, searching/connecting 15 s, waiting 50 ms, disconnecting 10 s)
TimerFire ==
  /\ timer # "none"
  /\ NoImmediate
  /\ \E reaction \in Reactions :
       Commit(Handle([Cur EXCEPT !.timer = "none", !.reaction = reaction], Input(timer)))

\* the 1 s ACK timer fires
AckTimerFire ==
  /\ ackTimer
  /\ NoImmediate
  /\ Commit(Handle([Cur EXCEPT !.ackTimer = FALSE], AckTimeout))

\* the 10 s connection-state response timer fires
ConnStateTimerFire ==
  /\ connStateTimer
  /\ NoImmediate
  /\ Commit(Handle([Cur EXCEPT !.connStateTimer = FALSE], ConnStateTimeout))

\* the 45 s heartbeat interval ticks
HeartbeatTick ==
  /\ connStateRequestTimer
  /\ NoImmediate
  /\ Room
  /\ log.ticks < MaxTicks
  /\ Commit(Handle([Cur EXCEPT !.log.ticks = @ + 1],
                   Input("outbound_CONNECTIONSTATE_REQUEST")))

LostTimerInput(kind) ==
  CASE kind = "ack" -> AckTimeout
    [] kind = "connState" -> ConnStateTimeout
    [] kind = "heartbeat" -> Input("outbound_CONNECTIONSTATE_REQUEST")
    [] OTHER -> Input(kind)

\* a timer whose handle was overwritten fires
LostTimerFireOf(kind) ==
  /\ lostTimers[kind] > 0
  /\ NoImmediate
  /\ \E reaction \in Reactions :
       Commit(Handle([Cur EXCEPT !.lostTimers[kind] = @ - 1, !.reaction = reaction],
                     LostTimerInput(kind)))

LostTimerFire == \E kind \in DOMAIN lostTimers : LostTimerFireOf(kind)

\* the oldest setImmediate callback runs
RunImmediate ==
  /\ immediates # <<>>
  /\ Commit(Handle([Cur EXCEPT !.immediates = Tail(@)], Head(immediates)))

\* a SEARCH_RESPONSE arrives on the discovery socket
Gateways ==
  {[physicalAddr |-> "1.1.220", address |-> "192.168.1.220:3671"],
   [physicalAddr |-> "1.1.1", address |-> "192.168.1.1:3671"]}

AnyEndpoint == "0.0.0.0:0"

\* The discovery socket's message handler: an unspecified tunnel endpoint is
\* replaced by the address the response came from.  The handler reads
\* response.datagram.hpai.tunnelEndpoint of whatever was decoded: on a
\* datagram without an hpai (tunnelEndpoint = NoEndpoint) that read throws,
\* and wire.thrown tells the error that left the callback.
DiscoverMessage(S, datagram, rinfo) ==
  IF datagram.tunnelEndpoint = NoEndpoint
    THEN [S EXCEPT !.wire.thrown = "TypeError"]
    ELSE Handle(S, IF datagram.tunnelEndpoint = AnyEndpoint
                     THEN [datagram EXCEPT !.tunnelEndpoint = rinfo] ELSE datagram)

RecvSearchResponse ==
  /\ discoverSocket
  /\ \E gw \in Gateways, hpai \in {"own", AnyEndpoint} :
       Commit(DiscoverMessage(Cur,
                SearchResponse(gw.physicalAddr, IF hpai = "own" THEN gw.address ELSE hpai),
                gw.address))

\* KnxDatagram.parseKnxMessage: a datagram of another channel is ignored
OtherChannel == 8
\* a filter that lets the datagrams of every channel pass
ForAnyChannel(own, channelId) == TRUE

ForOwnChannel(own, channelId) == own = NoChannel \/ channelId = own

\* the control socket's message handler
ControlMessage(S, inp, channelId) ==
  IF ~ForOwnChannel(S.channelID, channelId) THEN S
  ELSE Handle(IF inp.type = "inbound_DISCONNECT_REQUEST" THEN ClearQueue(S) ELSE S,
              inp)

\* The gateway answers what it was sent: a reply arrives while the Fsm is in
\* the state that awaits it.  DISCONNECT_REQUEST comes unasked.
GatewayMessages ==
  CASE state = "connecting" ->
         {ConnectResponse(c, st) : c \in ChannelIds, st \in ResponseCodes}
    [] state = "outbound_CONNECTIONSTATE_REQUEST" ->
         {ConnStateResponse(st) : st \in {NO_ERROR, E_CONNECTION_ID}}
    [] state = "outbound_TUNNELING_REQUEST" ->
         {TunnelingAck(sq, st) : sq \in {outboundSeqNum, (outboundSeqNum + 1) % SeqMod},
                                 st \in {NO_ERROR, E_CONNECTION_ID}}
    [] state = "disconnecting" -> {Input("inbound_DISCONNECT_RESPONSE")}
    [] OTHER -> {}

MsgChannel(inp) == IF inp.type = "inbound_CONNECT_RESPONSE" THEN inp.channelId ELSE channelID

\* one datagram arrives on the control socket
RecvControlOf(inp, channelId) ==
  /\ controlSocket
  /\ Len(immediates) < MaxImmediates
  /\ \E reaction \in Reactions :
       Commit(ControlMessage([Cur EXCEPT !.reaction = reaction], inp, channelId))

RecvControl ==
  \E inp \in GatewayMessages \cup {d \in {Input("inbound_DISCONNECT_REQUEST")} : Room} :
    \E channelId \in {MsgChannel(inp), OtherChannel} : RecvControlOf(inp, channelId)

\* inbound TUNNELING_REQUESTs: in sequence, the repetition of the previous
\* one, out of sequence
InboundSeqNums == {inboundSeqNum, (inboundSeqNum + 255) % SeqMod, (inboundSeqNum + 1) % SeqMod}

InboundFrames ==
  {LData(mc, sq, "GroupValue_Write", 1, 1) :
     mc \in {"L_Data.ind", "L_Data.con"}, sq \in InboundSeqNums}

\* group telegrams: the n-th frame of a run carries the payload n
InboundResponses ==
  {LData("L_Data.ind", sq, ev[1], ev[2], log.frames + 1) :
     sq \in {inboundSeqNum, (inboundSeqNum + 1) % SeqMod},
     ev \in {<<"GroupValue_Response", 1>>, <<"GroupValue_Response", 2>>,
             <<"GroupValue_Write", 1>>}}

\* an inbound TUNNELING_REQUEST (L_Data.ind / L_Data.con) arrives
RecvFrameOf(frames, reactions) ==
  /\ controlSocket
  /\ Room
  /\ log.frames < MaxFrames
  /\ \E inp \in frames, reaction \in reactions :
       \E channelId \in {channelID, OtherChannel} :
         Commit(ControlMessage([Cur EXCEPT !.reaction = reaction, !.log.frames = @ + 1],
                               inp, channelId))

RecvFrame == RecvFrameOf(InboundFrames, Reactions)

RecvResponse == RecvFrameOf(InboundResponses, {"none"})

\* ------------------------------------------------------------ specifications
\* the tunnelling connection with its heartbeat
Next ==
  \/ Connect
  \/ Disconnect
  \/ Write
  \/ TimerFire
  \/ AckTimerFire
  \/ ConnStateTimerFire
  \/ HeartbeatTick
  \/ LostTimerFire
  \/ RunImmediate
  \/ RecvSearchResponse
  \/ RecvControl
  \/ RecvFrame

Spec == Init /\ [][Next]_vars

\* the request API: read() and write() with their per-call timeouts, answered
\* by GroupValue_Response frames
NextApi ==
  \/ Connect
  \/ Write
  \/ Read
  \/ CallTimeout
  \/ TimerFire
  \/ AckTimerFire
  \/ LostTimerFire
  \/ RunImmediate
  \/ RecvSearchResponse
  \/ RecvControl
  \/ RecvResponse

SpecApi == Init /\ [][NextApi]_vars

\* a session in which 255 requests were acknowledged and 255 frames received:
\* the Fsm is online, both sequence counters are about to wrap, and the
\* gateway has one more frame to send
LongSession == 255

InitWrap ==
  /\ state = "online"
  /\ inputQueue = <<>>
  /\ channelID \in ChannelIds
  /\ inboundSeqNum = LongSession % SeqMod
  /\ outboundSeqNum = LongSession % SeqMod
  /\ connectionHeartbeatFailures = 0
  /\ outboundDatagram = NoOutbound
  /\ outboundFailures = 0
  /\ timer = "none"
  /\ ackTimer = FALSE
  /\ connStateTimer = FALSE
  /\ connStateRequestTimer = TRUE
  /\ lostTimers = [ack |-> 0, connState |-> 0, heartbeat |-> 0,
                   startsearch |-> 0, timeout |-> 0]
  /\ immediates = <<>>
  /\ controlSocket = TRUE
  /\ discoverSocket = FALSE
  /\ remoteControlEndpoint = "192.168.1.220:3671"
  /\ options = DefaultOptions
  /\ futures = [r \in Requests |-> NoFuture]
  /\ uuids = 0
  /\ wire = [sent |-> [r \in Requests |-> 0], order |-> <<>>,
             seqnums |-> [r \in Requests |-> {}], out |-> <<>>, replayed |-> {},
             events |-> <<>>, handled |-> <<>>, connect |-> "", foreign |-> FALSE,
             malformed |-> FALSE, thrown |-> "", unexpected |-> FALSE]
  /\ log = [emitted |-> [r \in Requests |-> "none"],
            pace |-> "idle",
            onlineSince |-> [r \in Requests |-> FALSE],
            answer |-> [r \in Requests |-> 0],
            timedOut |-> [r \in Requests |-> FALSE],
            acked |-> LongSession, stamped |-> LongSession, delivered |-> LongSession,
            frames |-> MaxFrames - 1, ticks |-> 0, purged |-> {},
            session |-> "online"]
  /\ codec = NoCodec

SpecWrap == InitWrap /\ [][Next]_vars

\* discovery and connection setup under the options an application can pass:
\* remoteEndpoint set or not, the physServerAddr filter empty or not
Options ==
  [remoteEndpoint : BOOLEAN, physServerAddr : {"", "1.1.220"}, use_tunneling : {TRUE}]

InitConnect == InitFields /\ options \in Options

NextConnect ==
  \/ Connect
  \/ Disconnect
  \/ Write
  \/ TimerFire
  \/ AckTimerFire
  \/ LostTimerFire
  \/ RunImmediate
  \/ RecvSearchResponse
  \/ RecvControl

SpecConnect == InitConnect /\ [][NextConnect]_vars

\* datagrams with a connstate or a tunnstate that another client's session
\* may be sent: they carry that session's channel id
ForeignMessages ==
  {TunnelingAck(outboundSeqNum, NO_ERROR),
   ConnStateResponse(E_CONNECTION_ID),
   Input("inbound_DISCONNECT_REQUEST"),
   Input("inbound_DISCONNECT_RESPONSE"),
   LData("L_Data.ind", inboundSeqNum, "GroupValue_Write", 1, 1)}

\* a datagram of another channel arrives on the control socket while the
\* session has a channel; wire.foreign tells that the callback was this one
RecvForeign ==
  /\ controlSocket
  /\ channelID # NoChannel
  /\ \E inp \in ForeignMessages, reaction \in Reactions :
       Commit(ControlMessage([Cur EXCEPT !.reaction = reaction, !.wire.foreign = TRUE],
                             inp, OtherChannel))

NextChannel ==
  \/ NextConnect
  \/ RecvForeign

\* connection setup and requests, with the traffic of a second session
SpecChannel == Init /\ [][NextChannel]_vars

\* disconnect(), called while inputs are deferred and no disconnect is among them
DisconnectBusy ==
  /\ inputQueue # <<>>
  /\ \A i \in DOMAIN inputQueue : inputQueue[i].input.type # "disconnect"
  /\ Len(immediates) < MaxImmediates
  /\ Commit(Handle(Cur, Input("disconnect")))

NextDisconnect ==
  \/ NextConnect
  \/ DisconnectBusy

\* write(null, value) / write(addr, null), writeRaw likewise
WriteNull == uuids < MaxReq /\ Commit(Submit(Cur, "write", NullAddr))

\* the client with use_tunneling set or not, and the calls of its API
InitInput ==
  InitFields /\ options \in {DefaultOptions, [DefaultOptions EXCEPT !.use_tunneling = FALSE]}

NextInput ==
  \/ NextConnect
  \/ Read
  \/ WriteNull

SpecInput == InitInput /\ [][NextInput]_vars

\* connection setup and requests, with disconnect() at any moment
SpecDisconnect == Init /\ [][NextDisconnect]_vars

\* ------------------------------------------------------- a silent gateway
\* An established session whose gateway answers nothing any more: no
\* TUNNELING_ACK, no CONNECTIONSTATE_RESPONSE, no DISCONNECT_RESPONSE, no
\* SEARCH_RESPONSE.  A last inbound frame may still arrive.  Node runs every
\* timer that stays armed and every setImmediate callback.
NextSilent ==
  \/ Connect
  \/ Disconnect
  \/ Write
  \/ TimerFire
  \/ AckTimerFire
  \/ ConnStateTimerFire
  \/ HeartbeatTick
  \/ RunImmediate
  \/ RecvFrame

SpecSilent ==
  /\ InitWrap
  /\ [][NextSilent]_vars
  /\ WF_vars(TimerFire)
  /\ WF_vars(AckTimerFire)
  /\ WF_vars(ConnStateTimerFire)
  /\ WF_vars(HeartbeatTick)
  /\ WF_vars(RunImmediate)

\* ------------------------------------------------- disconnect() and progress
\* The gateway's DISCONNECT_REQUEST arrives while inputs are deferred: the
\* control socket's handler clears the deferred queue before it hands the
\* request to the Fsm.
RecvDisconnectRequest ==
  /\ inputQueue # <<>>
  /\ RecvControlOf(Input("inbound_DISCONNECT_REQUEST"), channelID)

\* An established session with a gateway that answers or does not.  Node runs
\* every timer that stays armed and every setImmediate callback.
NextLive ==
  \/ Disconnect
  \/ Write
  \/ TimerFire
  \/ AckTimerFire
  \/ ConnStateTimerFire
  \/ HeartbeatTick
  \/ RunImmediate
  \/ RecvControl
  \/ RecvDisconnectRequest

SpecLive ==
  /\ InitWrap
  /\ [][NextLive]_vars
  /\ WF_vars(TimerFire)
  /\ WF_vars(AckTimerFire)
  /\ WF_vars(ConnStateTimerFire)
  /\ WF_vars(RunImmediate)

\* ------------------------------------------------ frames in arrival order
\* The gateway sends its TUNNELING_REQUESTs with consecutive sequence
\* counters: the frame that arrives carries the counter behind those of the
\* frames that arrived before it and wait in the deferred queue.
RecvNextFrame ==
  LET deferred(item) == IsLData(item.input)
      seqnum == (inboundSeqNum + Len(SelectSeq(inputQueue, deferred))) % SeqMod
  IN /\ controlSocket
     /\ channelID # NoChannel
     /\ Len(inputQueue) <= MaxQueue
     /\ log.frames < MaxFrames
     /\ \E msgcode \in {"L_Data.ind", "L_Data.con"} :
          Commit(ControlMessage([Cur EXCEPT !.log.frames = @ + 1],
                                LData(msgcode, seqnum, "GroupValue_Write", 1, 1),
                                channelID))

NextOrder ==
  \/ NextConnect
  \/ RecvNextFrame

SpecOrder == Init /\ [][NextOrder]_vars

\* ------------------------------------------------------ undecodable packets
\* a reader that takes every sub-structure as it comes
StructReadLenient(value, name) == ""

\* HPAI.read, CRI.read, DIBdevinfo.read: the error thrown on a TCP endpoint,
\* on a connection type other than DEVICE_MGMT_CONNECTION (3) and
\* TUNNEL_CONNECTION (4), on a description type other than 1
StructRead(value, name) ==
  IF name \notin value.has THEN ""
  ELSE CASE name \in {"hpai", "tunn"} /\ value.protocolType = 2 -> "TCP is not supported"
         [] name = "cri" /\ value.connectionType \notin {3, 4} ->
              "Unsupported connection type"
         [] name = "devinfo" /\ value.descriptionType # 1 -> "Unknown Devinfo structure"
         [] OTHER -> ""

\* parseKnxMessage: KNXNetHeader.read reads the sub-structures of the service
\* type in order; an error of the reader is caught and logged, the result is
\* null and the socket's message handler does not call handle()
ParseKnxMessage(S, value, handled) ==
  LET order == CASE value.serviceType \in {"SEARCH_REQUEST", "CONNECT_REQUEST"} ->
                      <<"hpai", "tunn", "cri">>
                 [] value.serviceType = "SEARCH_RESPONSE" -> <<"hpai", "devinfo">>
                 [] value.serviceType \in ConnStateTypes \cup {"DISCONNECT_RESPONSE"} ->
                      <<"connstate", "hpai", "cri">>
                 [] OTHER -> <<>>
  IN IF \E i \in DOMAIN order : StructRead(value, order[i]) # "" THEN S ELSE handled

\* Packets the gateway's address may send that the codec rejects, each with
\* the input it would be were it decoded: a SEARCH_RESPONSE with a TCP HPAI
\* or an unknown device description, a CONNECT_RESPONSE with a TCP HPAI or an
\* unsupported connection type, a DISCONNECT_REQUEST with a TCP HPAI.  Such a
\* packet arrives on the socket it is for; wire.malformed tells that the
\* callback was this one.
RecvUndecodable ==
  LET frame(svc, has) == [NoFrame EXCEPT !.serviceType = svc, !.has = has]
      gw == "192.168.1.220:3671"
      Undecodable ==
        {[socket |-> "discover", inp |-> SearchResponse("1.1.220", gw), value |-> v] :
           v \in {[frame("SEARCH_RESPONSE", {"hpai", "devinfo"}) EXCEPT !.protocolType = 2],
                  [frame("SEARCH_RESPONSE", {"hpai", "devinfo"})
                     EXCEPT !.descriptionType = 2]}}
        \cup
        {[socket |-> "control", inp |-> ConnectResponse(c, NO_ERROR), value |-> v] :
           c \in ChannelIds,
           v \in {[frame("CONNECT_RESPONSE", {"connstate", "hpai", "cri"})
                     EXCEPT !.protocolType = 2],
                  [frame("CONNECT_RESPONSE", {"connstate", "hpai", "cri"})
                     EXCEPT !.connectionType = 6]}}
        \cup
        {[socket |-> "control", inp |-> Input("inbound_DISCONNECT_REQUEST"),
          value |-> [frame("DISCONNECT_REQUEST", {"connstate", "hpai"})
                       EXCEPT !.protocolType = 2]]}
  IN \E p \in Undecodable, reaction \in Reactions :
       LET S == [Cur EXCEPT !.reaction = reaction, !.wire.malformed = TRUE]
       IN IF p.socket = "discover"
            THEN /\ discoverSocket
                 /\ Commit(ParseKnxMessage(S, p.value,
                                           DiscoverMessage(S, p.inp, p.inp.tunnelEndpoint)))
            ELSE /\ controlSocket
                 /\ Commit(ParseKnxMessage(S, p.value,
                             ControlMessage(S, p.inp,
                                            IF p.inp.type = "inbound_CONNECT_RESPONSE"
                                              THEN p.inp.channelId ELSE S.channelID)))

\* A datagram that is no SEARCH_RESPONSE arrives on the discovery socket: a
\* ROUTING_INDICATION or a TUNNELING_ACK.  The codec decodes it; it has no hpai.
RecvDiscoverOther ==
  /\ discoverSocket
  /\ \E inp \in {LData("L_Data.ind", 0, "GroupValue_Write", 1, 1),
                  TunnelingAck(0, NO_ERROR)} :
       Commit(DiscoverMessage(Cur, inp, "192.168.1.1:3671"))

NextDecode ==
  \/ NextConnect
  \/ RecvUndecodable
  \/ RecvDiscoverOther

\* connection setup and requests, with packets the codec cannot decode and
\* packets the socket they arrive on does not expect
SpecDecode == Init /\ [][NextDecode]_vars

\* --------------------------------------------------------- the codec's calls
\* the fields of the Fsm: a call of the codec leaves them alone
fsm == <<state, inputQueue, channelID, inboundSeqNum, outboundSeqNum,
         connectionHeartbeatFailures, outboundDatagram, outboundFailures,
         timer, ackTimer, connStateTimer, connStateRequestTimer, lostTimers,
         immediates, controlSocket, discoverSocket, remoteControlEndpoint,
         options, futures, uuids, wire, log>>

\* The APDUs a caller hands the writer: a number or a Buffer of n bytes
\* (v, v+1, ...), without a bitlength or with the one the DPT or writeRaw
\* sets; an APCI of the list or not; payloads in and out of the valid range.
ApduValues ==
  LET numbers == {[NoApdu EXCEPT !.data = <<n>>, !.bitlength = b] :
                    n \in {0, 1, 63}, b \in {0, 1, 6}}
                 \cup {[NoApdu EXCEPT !.data = <<64>>]}
      buffers == {[NoApdu EXCEPT !.isBuffer = TRUE, !.bitlength = b * n,
                                 !.data = [i \in 1..n |-> (v + i - 1) % 256]] :
                    n \in {1, 2, MaxPayload, MaxPayload + 1}, v \in {0, 63, 64, 255},
                    b \in {0, 8}}
      \* writeRaw(groupAddress, value, bitlength) with a bitlength of its own
      short == {[NoApdu EXCEPT !.isBuffer = TRUE, !.bitlength = b,
                               !.data = [i \in 1..n |-> (v + i - 1) % 256]] :
                  n \in {1, 2}, v \in {63, 64, 255}, b \in {1, 6}}
  IN {[a EXCEPT !.tpci = t, !.apci = c] :
        a \in numbers \cup buffers \cup short, t \in {0, 63},
        c \in {"GroupValue_Read", "GroupValue_Response", "GroupValue_Write",
               "OTHER", "GroupValue_Bogus"}}

\* writer.APDU(value) on a writer of its own
WriteApdu ==
  /\ codec = NoCodec
  /\ \E value \in ApduValues :
       codec' = [NoCodec EXCEPT !.op = "APDU.write", !.apdu = value,
                                !.out = APDUWrite(value)]
  /\ UNCHANGED fsm

\* reader.APDU() of the bytes just written
ReadApdu ==
  /\ codec.op = "APDU.write"
  /\ codec.out.error = ""
  /\ codec.out.bytes # <<>>
  /\ codec' = [codec EXCEPT !.op = "APDU.read", !.apduIn = APDURead(codec.out.bytes)]
  /\ UNCHANGED fsm

\* KnxDatagram.send: the writer runs inside a try; what it wrote goes to
\* socket.send, an error it threw to the callback.  The datagram is one of
\* fromServiceRequest, or the TUNNELING_REQUEST of read() / write() /
\* writeRaw() after makeReadRequest / makeWriteRequest / makeWriteRawRequest
\* (which set the service type use_tunneling asks for) and setSeqNum.
SendDatagram ==
  LET Datagrams ==
        {BuildDatagram(svc, c) :
           svc \in {"SEARCH_REQUEST", "CONNECT_REQUEST", "CONNECTIONSTATE_REQUEST",
                    "DISCONNECT_REQUEST", "DISCONNECT_RESPONSE", "TUNNELING_ACK",
                    "ROUTING_INDICATION"},
           c \in ChannelIds}
        \cup {[BuildDatagram("TUNNELING_REQUEST", 1) EXCEPT
                 !.serviceType = svc, !.apdu = a, !.destAddr = 2563, !.seqnum = sq] :
                svc \in {"TUNNELING_REQUEST", "ROUTING_INDICATION"},
                a \in {v \in ApduValues : v.tpci = 0},
                sq \in {0, 255}}
  IN /\ codec = NoCodec
     /\ \E datagram \in Datagrams :
          codec' = [NoCodec EXCEPT !.op = "send", !.datagram = datagram,
                                   !.out = KNXNetHeaderWrite(datagram)]
     /\ UNCHANGED fsm

\* parseKnxMessage of a packet that arrives whole, short of its last byte,
\* or cut behind the header
ReceivePacket ==
  /\ codec.op = "send"
  /\ codec.out.error = ""
  /\ \E k \in {6, Len(codec.out.bytes) - 1, Len(codec.out.bytes)} :
       LET msg == SubSeq(codec.out.bytes, 1, k)
       IN codec' = [codec EXCEPT !.op = "KNXNetHeader.read", !.msg = msg,
                                 !.header = KNXNetHeaderRead(msg)]
  /\ UNCHANGED fsm

NextCodec ==
  \/ WriteApdu
  \/ ReadApdu
  \/ SendDatagram
  \/ ReceivePacket

\* The codec on its own, called with the values above.  Every call creates
\* its writer or reader, so a run is one write and the read of its bytes.
SpecCodec == Init /\ [][NextCodec]_vars

\* -------------------------------------------------------------------- claims
\* requests that were put on the wire and whose completion event
\* ReceivedAck_<uuid> was not emitted yet
InFlight == {r \in Requests : wire.sent[r] > 0 /\ log.emitted[r] = "none"}

\* C1: at most one tunnelling request is in flight: between the first
\* transmission of a request and its completion event no request other than
\* it has been put on the wire and is still uncompleted.
C1_OneInFlight == Cardinality(InFlight) <= 1

\* C1 witness: the first request completed, the second one, submitted while
\* the first was in flight, is now in flight itself
C1_Witness ==
  /\ wire.order = <<1, 2>>
  /\ InFlight = {2}
  /\ state = "outbound_TUNNELING_REQUEST"

\* the TUNNELING_REQUESTs the last callback put on the wire
SentNow == {wire.out[i] : i \in {j \in DOMAIN wire.out : wire.out[j].svc = "TUNNELING_REQUEST"}}

\* C2: pacing: a request is transmitted for the first time only when the
\* pacing timer armed by the most recent entry to waiting after the last
\* positive ACK has fired ("due" marks a positive ACK whose pacing timer has
\* not fired yet).
C2_Paced ==
  \A dg \in SentNow : wire.sent[dg.uuid] = 1 => log.pace = "idle"

\* C3: a TUNNELING_REQUEST is put on the wire only for a request the Fsm took
\* in state online: one handed over in another state is not transmitted
\* before the Fsm entered online again.
C3_OnlyOnline == \A r \in Requests : wire.sent[r] > 0 => log.onlineSince[r]

\* C3 witness: a request that was deferred has just been transmitted out of
\* the replay of the deferred inputs, after the Fsm entered online
C3_Witness ==
  \E r \in wire.replayed :
    wire.sent[r] > 0 /\ log.onlineSince[r] /\ state = "outbound_TUNNELING_REQUEST"

\* the states other than online in which the API can hand over a request
NonOnline ==
  {"idle", "searching", "connecting", "waiting", "outbound_TUNNELING_REQUEST",
   "outbound_CONNECTIONSTATE_REQUEST", "disconnecting"}

Queued(q, r) ==
  \E i \in DOMAIN q :
    q[i].input.type = "outbound_TUNNELING_REQUEST" /\ q[i].input.uuid = r

\* C4: a request submitted in a state other than online is retained: after
\* the call it is in the queue of deferred inputs (or already on the wire).
C4_Retained ==
  [][(uuids' = uuids + 1 /\ state \in NonOnline)
       => (Queued(inputQueue', uuids') \/ wire.sent'[uuids'] > 0)]_vars

\* C5: requests are transmitted for the first time in the order of their
\* submission (uuids are handed out in call order).
C5_Fifo ==
  \A i, j \in DOMAIN wire.order : i < j => wire.order[i] < wire.order[j]

\* C9: every request is put on the wire at most twice.
C9_AtMostTwice == \A r \in Requests : wire.sent[r] <= 2

\* a callback that counts a failure of the request in flight: an ACK timer
\* fires, or an ACK with the expected sequence number carries an error status
AckFailure ==
  /\ state = "outbound_TUNNELING_REQUEST"
  /\ \/ AckTimerFire
     \/ LostTimerFireOf("ack")
     \/ RecvControlOf(TunnelingAck(outboundSeqNum, E_CONNECTION_ID), channelID)

\* the setImmediate callback scheduled by a first failure runs while the
\* request is still in flight
Resend ==
  /\ state = "outbound_TUNNELING_REQUEST"
  /\ immediates # <<>>
  /\ Head(immediates).type = "send_TUNNELING_REQUEST"
  /\ RunImmediate

DisconnectRequest == Datagram("DISCONNECT_REQUEST", NoDatagram, 0)

\* C8: the first failure (ACK timeout or error ACK) of a request leaves the
\* sequence counter and the datagram alone and schedules the resend, which
\* puts the same datagram with the same sequence number on the wire; the
\* second failure emits the request's completion event, which rejects the
\* caller's future, enters disconnecting and sends DISCONNECT_REQUEST.
C8_RetryThenDisconnect ==
  [][/\ (AckFailure /\ outboundFailures = 0) =>
          /\ state' = state /\ outboundFailures' = 1
          /\ outboundSeqNum' = outboundSeqNum
          /\ outboundDatagram' = outboundDatagram
          /\ immediates' = Append(immediates, Input("send_TUNNELING_REQUEST"))
          /\ log'.emitted = log.emitted
     /\ Resend =>
          /\ wire'.out = <<Datagram("TUNNELING_REQUEST", outboundDatagram.uuid,
                                     outboundDatagram.seqnum)>>
          /\ outboundDatagram.seqnum = outboundSeqNum
          /\ wire'.seqnums[outboundDatagram.uuid] = {outboundSeqNum}
          /\ outboundSeqNum' = outboundSeqNum
          /\ outboundDatagram' = outboundDatagram
     /\ (AckFailure /\ outboundFailures = 1) =>
          /\ state' = "disconnecting"
          /\ log'.emitted[outboundDatagram.uuid] \in {"null", E_CONNECTION_ID}
          /\ futures'[outboundDatagram.uuid].state = "rejected"
          /\ wire'.out = <<DisconnectRequest>>
          /\ outboundSeqNum' = outboundSeqNum]_vars

\* C8 witness: a request was transmitted twice with one sequence number, its
\* completion event carried null, its future is rejected and the Fsm, having
\* sent DISCONNECT_REQUEST, is disconnecting
C8_Witness ==
  \E r \in Requests :
    /\ wire.sent[r] = 2 /\ Cardinality(wire.seqnums[r]) = 1
    /\ log.emitted[r] = "null"
    /\ futures[r].state = "rejected" /\ futures[r].value = "No response"
    /\ state = "disconnecting" /\ wire.out = <<DisconnectRequest>>

Writes == {r \in Requests : futures[r].kind = "write"}
Reads == {r \in Requests : futures[r].kind = "read"}

\* C6: the future of write()/writeRaw() settles once: it is resolved with
\* true exactly when ReceivedAck_<uuid> of its own request carried NO_ERROR
\* before the per-call timeout fired; it is rejected with the response code
\* when that event carried an error code, and with "No response" when it
\* carried null or the per-call timeout fired first; otherwise it is pending.
C6_WriteSettles ==
  \A r \in Writes :
    LET f == futures[r]
        e == log.emitted[r]
        t == log.timedOut[r]
    IN /\ f.calls <= 1
       /\ f.state = "resolved" <=> (e = NO_ERROR /\ ~t)
       /\ f.state = "resolved" => f.value = "true"
       /\ f.state = "rejected" <=> (t \/ e \notin {"none", NO_ERROR})
       /\ f.state = "rejected" =>
            f.value = IF t \/ e = "null" THEN "No response" ELSE e
       /\ f.state = "pending" <=> (e = "none" /\ ~t)

\* C6 witness: of two writes one is resolved with true and the other one is
\* rejected with the response code of its ACKs
C6_Witness ==
  \E r, q \in Writes :
    /\ futures[r].state = "resolved" /\ log.emitted[r] = NO_ERROR
    /\ futures[q].state = "rejected" /\ futures[q].value = E_CONNECTION_ID

\* C7: the future of read(addr) settles once: it is resolved with the payload
\* of the first accepted GroupValue_Response frame for addr emitted after the
\* call and before the per-call timeout, and rejected with "No response" when
\* the timeout fired first.
C7_ReadSettles ==
  \A r \in Reads :
    LET f == futures[r]
    IN /\ f.calls <= 1
       /\ f.state = "resolved" <=> log.answer[r] # 0
       /\ f.state = "resolved" => (f.value = "data" /\ f.data = log.answer[r])
       /\ f.state = "rejected" <=> log.timedOut[r]
       /\ f.state = "rejected" => f.value = "No response"

\* C7 witness: a read is resolved with the payload of the second frame of the
\* run, the first frame not having been a response it waited for
C7_Witness ==
  \E r \in Reads :
    futures[r].state = "resolved" /\ futures[r].data = 2 /\ log.frames = 2

\* C10: the outbound sequence counter is the number of positively
\* acknowledged requests since connected modulo 256, and the k-th request of
\* the session carries the sequence number (k - 1) modulo 256, in the Fsm and
\* on the wire.
C10_OutboundSeqNum ==
  /\ outboundSeqNum = log.acked % SeqMod
  /\ outboundDatagram # NoOutbound =>
       outboundDatagram.seqnum = (log.stamped - 1) % SeqMod
  /\ \A dg \in SentNow : dg.seqnum = (log.stamped - 1) % SeqMod

\* C10 witness: after the 256th positive ACK of the session the counter is
\* back at 0 and the 257th request is on the wire with sequence number 0
C10_Witness ==
  /\ log.acked = 256 /\ outboundSeqNum = 0
  /\ log.stamped = 257
  /\ \E dg \in SentNow : dg.seqnum = 0

\* the frames the inbound state was entered for in the last callback
Handled == {wire.handled[i] : i \in DOMAIN wire.handled}

IsInSequence(h) == h.seqnum = h.expected
IsRepeated(h) == h.seqnum = (h.expected + SeqMod - 1) % SeqMod

\* C11: a frame whose sequence counter equals inboundSeqNum is answered with
\* exactly one TUNNELING_ACK echoing that counter, the three user events
\* <apci>_<dest>, event_<dest> and event are emitted once each, inboundSeqNum
\* advances by one modulo 256 and the Fsm moves to waiting.
C11_InSequence ==
  \A h \in Handled : IsInSequence(h) =>
    /\ h.acks = <<Datagram("TUNNELING_ACK", NoDatagram, h.seqnum)>>
    /\ h.events = <<<<h.apci, h.destAddr>>, <<"event", h.destAddr>>, <<"event">>>>
    /\ h.after = (h.expected + 1) % SeqMod
    /\ h.after \in 0..(SeqMod - 1)
    /\ h.next = "waiting"

\* the last frame of a long session is delivered and the counter wraps
C11_Witness ==
  \E h \in Handled : IsInSequence(h) /\ h.expected = SeqMod - 1 /\ inboundSeqNum = 0

\* C12: a frame that repeats the one before (its counter is inboundSeqNum - 1
\* modulo 256) is acknowledged again with its own counter, no user event is
\* emitted and inboundSeqNum stays as it is.
C12_Repeated ==
  \A h \in Handled : IsRepeated(h) =>
    /\ h.acks = <<Datagram("TUNNELING_ACK", NoDatagram, h.seqnum)>>
    /\ h.events = <<>>
    /\ h.after = h.expected

C12_Witness ==
  \E h \in Handled : IsRepeated(h) /\ inboundSeqNum = h.expected

\* C13: a frame whose counter is neither inboundSeqNum nor the one before it
\* gets no TUNNELING_ACK, no user event is emitted and inboundSeqNum stays as
\* it is.
C13_OutOfWindow ==
  \A h \in Handled : ~IsInSequence(h) /\ ~IsRepeated(h) =>
    /\ h.acks = <<>>
    /\ h.events = <<>>
    /\ h.after = h.expected

C13_Witness ==
  \E h \in Handled : ~IsInSequence(h) /\ ~IsRepeated(h) /\ inboundSeqNum = h.expected

\* C14: within a session the frames whose user events are emitted carry the
\* counters 0, 1, 2, ... (modulo 256) in this order, each once, deferred or
\* not: the n-th delivered frame of the session carries n modulo 256.
C14_InOrder ==
  /\ \A h \in Handled : h.events # <<>> => h.seqnum = h.nth % SeqMod
  /\ \A i, j \in DOMAIN wire.handled :
        i < j /\ wire.handled[i].events # <<>> /\ wire.handled[j].events # <<>>
          => wire.handled[i].nth < wire.handled[j].nth
  /\ inboundSeqNum = log.delivered % SeqMod

\* the second frame of a session is delivered out of the deferred queue
C14_Witness ==
  \E h \in Handled : h.replayed /\ h.events # <<>> /\ h.nth = 1

\* a callback that counts a failed heartbeat: a response timer fires, or a
\* CONNECTIONSTATE_RESPONSE carries an error status
HeartbeatFailure ==
  /\ state = "outbound_CONNECTIONSTATE_REQUEST"
  /\ \/ ConnStateTimerFire
     \/ LostTimerFireOf("connState")
     \/ RecvControlOf(ConnStateResponse(E_CONNECTION_ID), channelID)

\* the setImmediate callback scheduled by a failed heartbeat runs while the
\* Fsm still waits for the response
HeartbeatResend ==
  /\ state = "outbound_CONNECTIONSTATE_REQUEST"
  /\ immediates # <<>>
  /\ Head(immediates).type = "send_CONNECTIONSTATE_REQUEST"
  /\ RunImmediate

\* a CONNECTIONSTATE_RESPONSE with NO_ERROR arrives
HeartbeatOk ==
  /\ state = "outbound_CONNECTIONSTATE_REQUEST"
  /\ RecvControlOf(ConnStateResponse(NO_ERROR), channelID)

\* C15: in outbound_CONNECTIONSTATE_REQUEST every response timeout and every
\* response with an error status adds one to the failure counter; the Fsm
\* moves to disconnecting exactly when the counter exceeds 3, otherwise it
\* stays and the request is sent again; a NO_ERROR response sets the counter
\* to 0 and moves the Fsm to waiting.
C15_HeartbeatLoss ==
  [][/\ HeartbeatFailure =>
          /\ connectionHeartbeatFailures' = connectionHeartbeatFailures + 1
          /\ (state' = "disconnecting") <=> (connectionHeartbeatFailures' > 3)
          /\ connectionHeartbeatFailures' <= 3 =>
                /\ state' = state
                /\ immediates' = Append(immediates, Input("send_CONNECTIONSTATE_REQUEST"))
     /\ HeartbeatResend =>
          /\ wire'.out = <<Datagram("CONNECTIONSTATE_REQUEST", NoDatagram, 0)>>
          /\ connStateTimer'
          /\ state' = state
          /\ connectionHeartbeatFailures' = connectionHeartbeatFailures
     /\ HeartbeatOk =>
          /\ connectionHeartbeatFailures' = 0
          /\ inputQueue = <<>> => state' = "waiting"]_vars

\* the fourth consecutive failure has moved the Fsm to disconnecting
C15_Witness ==
  /\ state = "disconnecting"
  /\ connectionHeartbeatFailures = 4
  /\ wire.out = <<DisconnectRequest>>

\* C16: while the Fsm waits in outbound_CONNECTIONSTATE_REQUEST for a
\* response, an in-sequence L_Data.ind is acknowledged and delivered in the
\* callback that receives it: none is kept waiting in the deferred queue.
C16_NoStall ==
  state = "outbound_CONNECTIONSTATE_REQUEST" =>
    \A i \in DOMAIN inputQueue :
      ~ /\ inputQueue[i].input.type = "inbound_TUNNELING_REQUEST_L_Data.ind"
        /\ inputQueue[i].input.seqnum = inboundSeqNum

ConnectRequest == Datagram("CONNECT_REQUEST", NoDatagram, 0)

Emitted(event) == \E i \in DOMAIN wire.events : wire.events[i] = event

\* C17: with the remoteEndpoint option set discovery is skipped: connect()
\* takes the Fsm to connecting, where CONNECT_REQUEST is sent, and no
\* SEARCH_RESPONSE is needed for it.
C17_DiscoverySkipped ==
  [][(options.remoteEndpoint /\ Connect) =>
        /\ state' = "connecting"
        /\ \E i \in DOMAIN wire'.out : wire'.out[i] = ConnectRequest]_vars

\* C18: the Fsm stores a channel id and emits online only for a
\* CONNECT_RESPONSE whose status is NO_ERROR; a response with an error status
\* never leads to connected.
C18_OnlyNoError ==
  wire.connect \notin {"", NO_ERROR} =>
    /\ channelID = NoChannel
    /\ ~Emitted(<<"online">>)
    /\ state \notin {"connected", "online"}

\* C19: a CONNECT_RESPONSE with E_NO_MORE_CONNECTIONS takes the Fsm from
\* connecting to idle: connected is not entered, online is not emitted, no
\* channel id is stored and the control socket is closed.
C19_NoMoreConnections ==
  wire.connect = E_NO_MORE_CONNECTIONS =>
    /\ state = "idle"
    /\ ~Emitted(<<"online">>)
    /\ Emitted(<<"offline">>)
    /\ channelID = NoChannel
    /\ ~controlSocket

\* the gateway has refused the connection and the Fsm waits in idle to search again
C19_Witness ==
  /\ wire.connect = E_NO_MORE_CONNECTIONS
  /\ state = "idle"
  /\ timer = "startsearch"

\* the callback of the discovery socket for a response of gateway gw
SearchResponseOf(gw) ==
  /\ state = "searching"
  /\ discoverSocket
  /\ Commit(DiscoverMessage(Cur, SearchResponse(gw.physicalAddr, gw.address), gw.address))

\* C20: in searching a SEARCH_RESPONSE moves the Fsm to connecting and
\* stores the responder's endpoint exactly when the physServerAddr filter is
\* empty or equals the advertised physical address; any other response
\* leaves the state, the remote control endpoint and the search timer alone.
C20_DiscoveryFilter ==
  [][\A gw \in Gateways : SearchResponseOf(gw) =>
        IF options.physServerAddr = "" \/ gw.physicalAddr = options.physServerAddr
          THEN /\ state' = "connecting"
               /\ remoteControlEndpoint' = gw.address
          ELSE /\ state' = "searching"
               /\ remoteControlEndpoint' = remoteControlEndpoint
               /\ timer' = timer /\ timer = "timeout"
               /\ lostTimers' = lostTimers
               /\ discoverSocket']_vars

\* without a filter the gateway 1.1.1 was taken
C20_Witness ==
  /\ options.physServerAddr = ""
  /\ state = "connecting"
  /\ remoteControlEndpoint = "192.168.1.1:3671"

\* C21: while the session has a channel id, a datagram whose connstate or
\* tunnstate carries another channel id is dropped before it reaches the
\* Fsm: no transition, no change of a sequence counter, nothing sent, no user
\* event, no purge of the deferred queue.
C21_ChannelFilter ==
  [][RecvForeign =>
        /\ UNCHANGED <<state, inputQueue, channelID, inboundSeqNum, outboundSeqNum,
                       connectionHeartbeatFailures, outboundDatagram, outboundFailures,
                       timer, ackTimer, connStateTimer, connStateRequestTimer,
                       lostTimers, immediates, futures>>
        /\ wire'.out = <<>>
        /\ wire'.events = <<>>]_vars

\* an ACK for another channel has arrived while a request was in flight and
\* others were deferred: the Fsm still waits for its own ACK
C21_Witness ==
  /\ wire.foreign
  /\ state = "outbound_TUNNELING_REQUEST"
  /\ ackTimer
  /\ inputQueue # <<>>

\* C22: the entry to disconnecting empties the deferred queue and sends
\* DISCONNECT_REQUEST; a request that was deferred at that moment is never
\* put on the wire afterwards, not even after the client has connected again.
C22_PurgedNeverSent ==
  [][/\ (state' = "disconnecting" /\ state # "disconnecting") =>
          /\ inputQueue' = <<>>
          /\ \E i \in DOMAIN wire'.out : wire'.out[i] = DisconnectRequest
     /\ \A r \in log.purged : wire'.sent[r] = wire.sent[r] /\ ~Queued(inputQueue', r)
     /\ \A r \in log'.purged : wire'.sent[r] = 0]_vars

\* a request was purged, and the client is online again with nothing to send
C22_Witness ==
  /\ log.purged # {}
  /\ state = "online"
  /\ \A r \in log.purged : wire.sent[r] = 0

\* C23: the per-call timeout rejects the caller's future and nothing else:
\* the state of the Fsm, both sequence counters, the failure counters, the
\* timers of the Fsm and the deferred queue are as before (a request that is
\* still deferred stays deferred), and the other futures are untouched.
C23_TimeoutOnlyRejects ==
  [][CallTimeout =>
        /\ UNCHANGED <<state, inputQueue, channelID, inboundSeqNum, outboundSeqNum,
                       connectionHeartbeatFailures, outboundDatagram, outboundFailures,
                       timer, ackTimer, connStateTimer, connStateRequestTimer,
                       lostTimers, immediates, controlSocket, uuids>>
        /\ wire'.out = <<>>
        /\ \E r \in Requests :
             /\ futures[r].state = "pending"
             /\ futures'[r].state = "rejected" /\ futures'[r].value = "No response"
             /\ \A q \in Requests \ {r} : futures'[q] = futures[q]]_vars

\* the call of a request that is still deferred has timed out
C23_Witness ==
  \E r \in Requests :
    /\ log.timedOut[r]
    /\ futures[r].state = "rejected"
    /\ Queued(inputQueue, r)
    /\ wire.sent[r] = 0
\* the requests built by the API call of this step
Submitted == (uuids + 1) .. uuids'

\* C24: write() / writeRaw() with a null group address or a null value
\* transmits no datagram and leaves the Fsm state, both sequence numbers and
\* the deferred queue as they were.
C24_NullWriteInert ==
  [][(\E r \in Submitted : futures'[r].addr = NullAddr)
       => /\ wire'.out = <<>>
          /\ UNCHANGED <<state, inboundSeqNum, outboundSeqNum, inputQueue>>]_vars

\* C25: with use_tunneling = false a group write or read issued while online
\* is transmitted as a ROUTING_INDICATION, and the Fsm awaits no acknowledgement
\* for it.
C25_RoutingIndication ==
  [][(/\ ~options.use_tunneling
      /\ state = "online"
      /\ \E r \in Submitted : futures'[r].addr # NullAddr)
       => /\ \E i \in DOMAIN wire'.out : wire'.out[i].svc = "ROUTING_INDICATION"
          /\ ~ackTimer']_vars


\* the codec was handed an APDU with an APCI of KnxConstants.APCICODES
ValidApci(apdu) == \E i \in DOMAIN APCICODES : APCICODES[i] = apdu.apci

\* C26: a frame whose APDU carries an APCI that is not in the enumeration is
\* rejected: the write fails (it throws) and no bytes of the frame are handed
\* to the socket.
C26_UnknownApciRejected ==
  (/\ codec.op = "send"
   /\ "cemi" \in codec.datagram.has
   /\ ~ValidApci(codec.datagram.apdu))
    => codec.out.error # "" /\ codec.out.bytes = <<>>

\* C27: of every frame the writer emits (here: with an APCI of the
\* enumeration), the totalLength in the header is the number of bytes emitted.
C27_TotalLength ==
  (/\ codec.op = "send"
   /\ codec.out.error = ""
   /\ "cemi" \in codec.datagram.has => ValidApci(codec.datagram.apdu))
    => Len(codec.out.bytes) = codec.out.bytes[5] * 256 + codec.out.bytes[6]

\* The payload is the data: a bit length, where one is given, is that of the
\* data (the other case is that of C34).
BitLengthOfData(apdu) ==
  apdu.isBuffer => apdu.bitlength \in {0, 8 * Len(apdu.data)}

C29_IncompletePacket ==
  (/\ codec.op = "KNXNetHeader.read"
   /\ Len(codec.msg) < codec.header.hdr.totalLength)
    => codec.header.error = "Incomplete KNXNet packet"

\* C30: a datagram the codec rejects (an HPAI with protocolType TCP, a DIB
\* with a description type other than 1, a CRI with an unsupported connection
\* type) is dropped where it arrives: the Fsm gets no input, its state, its
\* sequence numbers, its timers and its deferred queue are as before, and
\* nothing is sent.
C30_DecodeErrorDropped ==
  [][wire'.malformed =>
       /\ UNCHANGED <<state, inputQueue, channelID, inboundSeqNum, outboundSeqNum,
                      connectionHeartbeatFailures, outboundDatagram, outboundFailures,
                      timer, ackTimer, connStateTimer, connStateRequestTimer,
                      lostTimers, immediates, controlSocket, discoverSocket,
                      remoteControlEndpoint, futures, uuids, log>>
       /\ wire'.out = <<>>
       /\ wire'.events = <<>>]_vars

\* an undecodable packet came while the Fsm awaited the CONNECT_RESPONSE
C30_Witness ==
  /\ wire.malformed
  /\ state = "connecting"

\* C31: no exception leaves the message handler of the discovery socket or
\* of the control socket, whatever decoded datagram arrives in whatever state.
C31_NoException == wire.thrown = ""

Established ==
  state \in {"online", "waiting", "outbound_TUNNELING_REQUEST",
             "outbound_CONNECTIONSTATE_REQUEST"}

\* C32: when the gateway answers nothing any more while a session is
\* established, the Fsm eventually enters idle, emitting offline, and from
\* idle it eventually enters searching again.
C32_SilentGateway ==
  /\ Established ~> (state = "idle" /\ Emitted(<<"offline">>))
  /\ (state = "idle") ~> (state = "searching")

\* the session was lost to four unanswered heartbeats and the search restarted
C32_Witness == state = "searching" /\ connectionHeartbeatFailures = 4 /\ ~controlSocket

\* a TUNNELING_ACK of the session that carries the counter behind outboundSeqNum
UnexpectedAck ==
  /\ state = "outbound_TUNNELING_REQUEST"
  /\ \E st \in {NO_ERROR, E_CONNECTION_ID} :
       RecvControlOf(TunnelingAck((outboundSeqNum + 1) % SeqMod, st), channelID)

\* C33: a TUNNELING_ACK whose sequence number is not outboundSeqNum is ignored
\* in outbound_TUNNELING_REQUEST: the state, the sequence number, the failure
\* count, the request and the armed ACK timer stay as they are, nothing is
\* scheduled or sent, and no event is emitted.
C33_UnexpectedAckIgnored ==
  [][(UnexpectedAck \/ wire'.unexpected) =>
        /\ state = "outbound_TUNNELING_REQUEST"
        /\ wire'.unexpected
        /\ UNCHANGED <<state, outboundSeqNum, outboundFailures, outboundDatagram,
                       ackTimer, lostTimers, immediates, inputQueue, timer,
                       futures, uuids>>
        /\ wire'.out = <<>> /\ wire'.events = <<>>
        /\ wire'.sent = wire.sent
        /\ log'.emitted = log.emitted]_vars

C33_Witness ==
  /\ wire.unexpected
  /\ state = "outbound_TUNNELING_REQUEST" /\ ackTimer /\ outboundFailures = 0

ApciCode(apdu) == (CHOOSE i \in DOMAIN APCICODES : APCICODES[i] = apdu.apci) - 1

\* C34: of every APDU that is written in 3 bytes the 16-bit word is
\* tpci * 2^10 + apci * 2^6 + data6: its upper six bits are the tpci of the
\* value, the next four its APCI code, and the data is in the low six bits
\* only - also for a raw value whose bit length is 6 or less and whose first
\* byte is above 63.
C34_ShortApduWord ==
  (/\ codec.op = "APDU.write"
   /\ ValidApci(codec.apdu)
   /\ codec.out.error = ""
   /\ Len(codec.out.bytes) = 3) =>
     LET word == codec.out.bytes[2] * 256 + codec.out.bytes[3]
     IN /\ word \div 1024 = codec.apdu.tpci
        /\ (word \div 64) % 16 = ApciCode(codec.apdu)
        /\ word % 64 = codec.apdu.data[1] % 64

DisconnectQueued ==
  \E i \in DOMAIN inputQueue : inputQueue[i].input.type = "disconnect"

\* C35: disconnect() called while a session is established leads to
\* disconnecting, where DISCONNECT_REQUEST is sent - at once in online and
\* waiting, after the exchange under way in the two outbound states, where
\* the call is deferred - and disconnecting always leads to idle.
C35_DisconnectCompletes ==
  /\ [][(Disconnect /\ state \in {"online", "waiting"}) =>
           /\ state' = "disconnecting"
           /\ wire'.out = <<DisconnectRequest>>]_vars
  /\ (Established /\ DisconnectQueued) ~> (state = "disconnecting")
  /\ (state = "disconnecting") ~> (state = "idle")

\* the ACK timers that are armed: the one this._ackTimer refers to and those
\* whose handle was overwritten
AckTimers == (IF ackTimer THEN 1 ELSE 0) + lostTimers.ack

\* C36: at most one ACK timer is armed at any time and none outside
\* outbound_TUNNELING_REQUEST, so that an ACK timeout is counted against the
\* request it was armed for only: a timer armed for an earlier transmission
\* never raises the failure count of the request under way, resends it or
\* disconnects.
C36_OneAckTimer ==
  /\ [](AckTimers <= 1)
  /\ [](state # "outbound_TUNNELING_REQUEST" => AckTimers = 0)
  /\ [][LostTimerFireOf("ack") =>
          /\ UNCHANGED <<state, outboundFailures, immediates>>
          /\ wire'.out = <<>>]_vars

\* C37: of frames that arrive with consecutive sequence counters, L_Data.ind
\* or L_Data.con, each is checked against the counter after the frames that
\* arrived before it, deferred or not: each is in sequence when its turn
\* comes, is acknowledged, and its events are emitted.
C37_ArrivalOrder ==
  \A h \in Handled :
    /\ IsInSequence(h)
    /\ h.acks # <<>>
    /\ h.events # <<>>

\* C38: there is never more than one heartbeat interval, and it runs exactly
\* while a session is established: from the entry to connected to the entry
\* to disconnecting or idle, whatever ends the session.
C38_HeartbeatTimer ==
  /\ lostTimers.heartbeat = 0
  /\ connStateRequestTimer <=>
       state \in {"connected", "online", "waiting", "inbound_TUNNELING_REQUEST_L_Data",
                  "outbound_TUNNELING_REQUEST", "outbound_CONNECTIONSTATE_REQUEST"}

\* a session lost to unanswered heartbeats has ended in idle
C38_Witness ==
  /\ state = "idle"
  /\ connectionHeartbeatFailures = 4
  /\ ~connStateRequestTimer

\* C39: online is never emitted twice without an offline in between; in
\* idle, searching and connecting the Fsm has no channel id, in online,
\* waiting, inbound_TUNNELING_REQUEST_L_Data and the two outbound states it
\* has one.
C39_SessionChannel ==
  /\ [][(\E i \in DOMAIN wire'.events : wire'.events[i] = <<"online">>) =>
           log.session # "online"]_vars
  /\ [](state \in {"idle", "searching", "connecting"} => channelID = NoChannel)
  /\ [](state \in {"online", "waiting", "inbound_TUNNELING_REQUEST_L_Data",
                   "outbound_TUNNELING_REQUEST", "outbound_CONNECTIONSTATE_REQUEST"}
          => channelID \in ChannelIds)

\* online is emitted for a session that follows one in which a request failed
C39_Witness ==
  /\ Emitted(<<"online">>)
  /\ log.emitted[1] = "null"
  /\ channelID \in ChannelIds

====
